---- MODULE Spec2Model ----
(***************************************************************************)
(* Chat widget session controller of organic_hub (src/unnamed/part_000),   *)
(* with the notification dropdown (src/static/js/notifications.js) and the *)
(* cart page (src/core/static/core/js/cart/, src/unnamed/part_001).        *)
(* One action per event handler / promise callback / timer callback;       *)
(* JavaScript is single-threaded, so every callback is atomic.             *)
(***************************************************************************)
EXTENDS Integers, Sequences, FiniteSets, TLC

VARIABLES
    isOpen,                 \* chatState.isOpen
    currentView,            \* chatState.currentView: "list" | "detail"
    currentRoom,            \* chatState.currentRoom (NoRoom models null)
    currentOtherUserId,     \* chatState.currentOtherUserId (0 models null)
    currentOtherUserAvatar, \* chatState.currentOtherUserAvatar (0 models null)
    currentIsBot,           \* chatState.currentIsBot
    filter,                 \* chatState.filter
    searchQuery,            \* chatState.searchQuery
    chatRooms,              \* chatState.chatRooms
    chatSocket,             \* chatState.chatSocket: a slot of sockets, 0 models null
    sockets,                \* the WebSocket objects on which close() was not called yet
    chatMessages,           \* children of the #chatMessages element
    chatList,               \* rows of the #chatList element
    stash,                  \* row indices whose window[roomDataId] still exists
    cleanups,               \* row indices with a pending 1000 ms stash deletion
    unreadBadge,            \* number shown by #unreadBadge
    refreshes,              \* in-flight GET chatRoomsApiUrl in issue order: the userId
                            \* openChatWidget chained on the fetch, 0 when none
    openTimers,             \* pending 500 ms timers of openChatWidget: their userId
    loads,                  \* in-flight GET /chat/api/messages/<id>/ in issue order
    reads,                  \* in-flight POST /chat/api/mark-read/<id>/ in issue order
    sends,                  \* log: one record per sendMessage call that passed both guards
    retryTimers,            \* pending 500 ms retry timers of sendMessage (ids into sends)
    retried,                \* log: ids whose retry timer has fired
    transmitted,            \* log: frames handed to WebSocket.send, in order
    alerts,                 \* log: the alert() calls made
    issued,                 \* log: how many room opens and directory fetches were started
    last,                   \* log: the handler that ran last, its argument, the branch
                            \* it took, and is_bot of the frame for onmessage
    notifications,          \* notifications.js: the notifications array
    notifySockets,          \* readyState of the notification WebSockets not yet closed
    reconnectTimers,        \* pending 5000 ms timers set by websocket.onclose
    attempts,               \* log: new WebSocket calls of notifications.js (saturating)
    listFetch,              \* the GET listUrl of fetchNotifications is in flight
    markReads,              \* in-flight POSTs of markNotificationRead: the id, and the
                            \* place of the target object in notifications (0: no
                            \* longer in the array)
    markAlls,               \* in-flight POSTs of markAllNotificationsRead
    badge,                  \* count last given to updateBadge, -1 before the first call
    nlast,                  \* log: the notification handler that ran last
    quantity,               \* cart: the quantity of each item the page was rendered with
    quantityInput,          \* value of each .quantity-input, as text
    checked,                \* state of each .item-checkbox
    appliedDiscounts,       \* sessionStorage appliedDiscounts: store -> discount
    cache,                  \* DiscountCalculator.cache: store -> codes
    voucherLoads,           \* in-flight GET /api/store/<id>/discount-codes/: the store
    voucherList,            \* #discountCodeList: the store and the codes it lists
    shown,                  \* the footer as updateTotalDisplay wrote it
    submitted,              \* log: the quantities posted to /update-cart/<id>/
    clast                   \* log: the cart handler that ran last

\* the state of the chat widget
chatVars == <<isOpen, currentView, currentRoom, currentOtherUserId,
              currentOtherUserAvatar, currentIsBot, filter, searchQuery, chatRooms,
              chatSocket, sockets, chatMessages, chatList, stash, cleanups,
              unreadBadge, refreshes, openTimers, loads, reads, sends, retryTimers,
              retried, transmitted, alerts, issued, last>>

\* the state of the notification dropdown
notifyVars == <<notifications, notifySockets, reconnectTimers, attempts,
                listFetch, markReads, markAlls, badge, nlast>>

\* the state of the cart page
cartVars == <<quantity, quantityInput, checked, appliedDiscounts, cache,
              voucherLoads, voucherList, shown, submitted, clast>>

vars == <<chatVars, notifyVars, cartVars>>

\* what the callbacks of one script leave alone: the state of the other scripts
outsideChat == <<notifyVars, cartVars>>
outsideNotify == <<chatVars, cartVars>>
outsideCart == <<chatVars, notifyVars>>

----------------------------------------------------------------------------
(* Bounds *)
MaxSends == 2       \* sendMessage calls that reach the optimistic append
MaxSliceSends == 1  \* of these, the calls followed by the two large slices
MaxFrames == 1      \* live entries in the pane at one time
MaxOpens == 2       \* showChatDetail calls in one run
MaxRefreshes == 3   \* loadChatRooms calls in one run

----------------------------------------------------------------------------
(* Values *)
NoRoom == <<>>              \* null / empty room name
CurrentUserId == 1          \* window.currentUserId

\* A room name is the sequence of its '_'-delimited segments; segment 1 (the
\* "room" prefix) is written 0.
ServerRooms ==
    << [user_id |-> 2, full_name |-> <<"A", "n", "n", "a">>, avatar |-> 7,
        room_name |-> <<0, 1, 2>>, unread_count |-> 3, is_bot |-> FALSE],
       [user_id |-> 3, full_name |-> <<"B", "o", "b">>, avatar |-> 0,
        room_name |-> <<0, 3, 1>>, unread_count |-> 0, is_bot |-> TRUE],
       [user_id |-> 4, full_name |-> <<"C", "a", "n">>, avatar |-> 0,
        room_name |-> <<0, 4>>, unread_count |-> 1, is_bot |-> FALSE] >>

\* what the room-list endpoint may answer
Responses ==
    { [chat_rooms |-> ServerRooms, total_unread |-> 4],
      [chat_rooms |-> SubSeq(ServerRooms, 1, 2), total_unread |-> 3] }

\* what the history endpoint may answer for a counterpart
Histories(other) ==
    { <<>>,
      << [sender_id |-> other, content |-> <<"h">>] >> }

\* what the user may have typed when sendMessage runs
Inputs == { <<>>, <<" ", " ">>, <<" ", "h", "i", " ">> }

\* what the user may type into the search box
Queries == { <<>>, <<"A", "N">> }

\* inbound frames: sender_id 0 models an absent / zero sender_id
FrameSenders == {0, CurrentUserId, 2}
FrameTexts == { <<"h", "i">> }
----------------------------------------------------------------------------
(* String helpers (JavaScript String.prototype) *)

IsSpace(c) == c = " "

RECURSIVE TrimStart(_)
TrimStart(s) ==
    IF s = <<>> THEN <<>>
    ELSE IF IsSpace(Head(s)) THEN TrimStart(Tail(s)) ELSE s

RECURSIVE TrimEnd(_)
TrimEnd(s) ==
    IF s = <<>> THEN <<>>
    ELSE IF IsSpace(s[Len(s)]) THEN TrimEnd(SubSeq(s, 1, Len(s) - 1)) ELSE s

Trim(s) == TrimEnd(TrimStart(s))

LowerChar(c) ==
    CASE c = "A" -> "a" [] c = "B" -> "b" [] c = "C" -> "c"
      [] c = "N" -> "n" [] OTHER -> c

ToLowerCase(s) == [i \in 1..Len(s) |-> LowerChar(s[i])]

Includes(s, t) ==
    \E i \in 0..(Len(s) - Len(t)) : SubSeq(s, i + 1, i + Len(t)) = t

----------------------------------------------------------------------------
(* Room directory *)

\* the mapping inside loadChatRooms (email, lastMessage and time are carried
\* to the row template only and are left out)
MapRoom(room) ==
    [userId |-> room.user_id, name |-> room.full_name, avatar |-> room.avatar,
     roomName |-> room.room_name, unreadCount |-> room.unread_count,
     isBot |-> room.is_bot]

MapRooms(rooms) == [i \in 1..Len(rooms) |-> MapRoom(rooms[i])]

\* the filters of renderChatList with a search that compares without toLowerCase
FilteredRoomsCaseSensitive(rooms, query, filt) ==
    LET bySearch == IF query # <<>>
                    THEN SelectSeq(rooms, LAMBDA room : Includes(room.name, query))
                    ELSE rooms
    IN  IF filt = "unread"
        THEN SelectSeq(bySearch, LAMBDA room : room.unreadCount > 0)
        ELSE bySearch

\* the two filters of renderChatList
FilteredRooms(rooms, query, filt) ==
    LET bySearch == IF query # <<>>
                    THEN SelectSeq(rooms, LAMBDA room :
                             Includes(ToLowerCase(room.name), ToLowerCase(query)))
                    ELSE rooms
    IN  IF filt = "unread"
        THEN SelectSeq(bySearch, LAMBDA room : room.unreadCount > 0)
        ELSE bySearch

\* the per-row data renderChatList stores in window[roomDataId]
RoomData(room) ==
    [roomName |-> room.roomName, full_name |-> room.name, user_id |-> room.userId,
     avatar |-> room.avatar, isBot |-> room.isBot, unreadCount |-> room.unreadCount]

RenderChatList(rooms, query, filt) ==
    LET f == FilteredRooms(rooms, query, filt)
    IN  [i \in 1..Len(f) |-> RoomData(f[i])]

----------------------------------------------------------------------------
(* Message pane *)

\* A child of the pane.  kind is a placeholder kind or the origin of a message;
\* room (the room a history entry was fetched for) and ref (the sendMessage call
\* an optimistic entry belongs to) are not on screen.
Placeholder(kind) ==
    [kind |-> kind, content |-> <<>>, senderId |-> 0, room |-> NoRoom, ref |-> 0]

Entry(kind, content, senderId, room, ref) ==
    [kind |-> kind, content |-> content, senderId |-> senderId, room |-> room,
     ref |-> ref]

IsPlaceholder(e) == e.kind \in {"loading", "empty", "error", "invalid"}

\* chatMessages.querySelector('.text-center.text-muted').remove()
RECURSIVE RemoveFirstPlaceholder(_)
RemoveFirstPlaceholder(msgs) ==
    IF msgs = <<>> THEN <<>>
    ELSE IF IsPlaceholder(Head(msgs)) THEN Tail(msgs)
    ELSE <<Head(msgs)>> \o RemoveFirstPlaceholder(Tail(msgs))

\* addMessageToChat that inserts the new row before the rows of the pane
AddMessageToChatFront(msgs, entry) == << entry >> \o RemoveFirstPlaceholder(msgs)

\* addMessageToChat: the children of the pane after the call
AddMessageToChat(msgs, entry) == Append(RemoveFirstPlaceholder(msgs), entry)

\* the body of the history fetch's second then(): the new children of the pane
RenderHistory(msgs, data, room) ==
    IF data = <<>> THEN << Placeholder("empty") >>
    ELSE [i \in 1..Len(data) |->
            Entry("history", data[i].content, data[i].sender_id, room, 0)]

----------------------------------------------------------------------------
(* Transport *)

\* every socket is made by a room open or by the reconnect of a send
Slots == 1..(MaxOpens + MaxSends)

NoSocket == [room |-> NoRoom, bot |-> FALSE, readyState |-> "NONE"]

RemoveAt(seq, i) == SubSeq(seq, 1, i - 1) \o SubSeq(seq, i + 1, Len(seq))

\* chatSocket.close(): the object leaves the set of sockets not yet closed
SocketClose(socks, s) ==
    IF s = 0 THEN socks ELSE [socks EXCEPT ![s] = NoSocket]

FreeSlot(socks) ==
    LET free == {k \in DOMAIN socks : socks[k] = NoSocket}
    IN  IF free = {} THEN 0 ELSE CHOOSE k \in free : \A j \in free : k <= j

\* connectWebSocket without its "close existing connection" block
ConnectWebSocketLeak(socks, cur, roomName, isBot) ==
    LET k == FreeSlot(socks)
    IN  IF k = 0 THEN [sockets |-> socks, chatSocket |-> 0]
        ELSE [sockets |-> [socks EXCEPT ![k] = [room |-> roomName, bot |-> isBot,
                                                readyState |-> "CONNECTING"]],
              chatSocket |-> k]

\* connectWebSocket that always takes the private path, whatever the room is
ConnectWebSocketPrivate(socks, cur, roomName, isBot) ==
    LET closed == SocketClose(socks, cur)
        k == FreeSlot(closed)
    IN  IF k = 0 THEN [sockets |-> closed, chatSocket |-> 0]
        ELSE [sockets |-> [closed EXCEPT ![k] = [room |-> roomName, bot |-> FALSE,
                                                 readyState |-> "CONNECTING"]],
              chatSocket |-> k]

\* connectWebSocket: the new value of <<sockets, chatSocket>>; chatSocket 0 in
\* the result means that no slot is left
ConnectWebSocket(socks, cur, roomName, isBot) ==
    LET closed == SocketClose(socks, cur)
        k == FreeSlot(closed)
    IN  IF k = 0 THEN [sockets |-> closed, chatSocket |-> 0]
        ELSE [sockets |-> [closed EXCEPT ![k] = [room |-> roomName, bot |-> isBot,
                                                 readyState |-> "CONNECTING"]],
              chatSocket |-> k]

\* chatState.chatSocket && chatState.chatSocket.readyState === WebSocket.OPEN
IsReady(socks, cur) == cur # 0 /\ socks[cur].readyState = "OPEN"

\* a delivery condition that tests the presence of sender_id only
DeliveryFilterAll(sender_id, curUser, isBotRoom) == sender_id # 0

\* the condition of chatSocket.onmessage
DeliveryFilter(sender_id, curUser, isBotRoom) ==
    sender_id # 0 /\ (sender_id # curUser \/ isBotRoom)

\* String(n) for a user id: its decimal digits
RECURSIVE DigitsOf(_)
DigitsOf(n) ==
    IF n < 10 THEN << n >> ELSE Append(DigitsOf(n \div 10), n % 10)

\* parseInt of a segment made of decimal digits
RECURSIVE ParseInt(_)
ParseInt(ds) ==
    IF Len(ds) = 1 THEN ds[1]
    ELSE 10 * ParseInt(SubSeq(ds, 1, Len(ds) - 1)) + ds[Len(ds)]

\* the user ids room names are built from in the check of otherUserId
UserIds == {1, 2, 7, 10, 42, 107}

\* otherUserId that always takes the first participant segment
OtherUserIdFirst(parts, curUser) == parts[2]

\* otherUserId of loadChatMessages
OtherUserId(parts, curUser) ==
    IF parts[2] = curUser THEN parts[3] ELSE parts[2]

----------------------------------------------------------------------------
(* Cart page: values and functions                                          *)
(* src/core/static/core/js/cart/cart-utils.js, cart-discount.js             *)

MIN_QUANTITY == 1       \* CartUtils.CONSTANTS.MIN_QUANTITY
MAX_QUANTITY == 99      \* CartUtils.CONSTANTS.MAX_QUANTITY
MaxSubmits == 2         \* form submissions in one run
MaxVoucherLoads == 2    \* discount-code fetches in flight at one time

\* the cart the page shows: three items of two stores; amounts are in pence and
\* every unit price is a whole number of pounds, so that the percentages below
\* are exact
Items == {1, 2, 3}
Stores == {1, 2}
StoreOf == [i \in Items |-> IF i = 3 THEN 2 ELSE 1]
UnitPrice == [i \in Items |-> IF i = 1 THEN 300 ELSE IF i = 2 THEN 200 ELSE 500]
InitialQuantity == [i \in Items |-> IF i = 1 THEN 1 ELSE IF i = 2 THEN 99 ELSE 2]

\* undefined as a value of appliedDiscounts[storeId]
NoDiscount ==
    [code |-> "", discount_type |-> "none", discount_value |-> 0, max_discount |-> 0]

\* a discount code as the API lists it; max_discount 0 models null
Code(code, type, value, max) ==
    [code |-> code, discount_type |-> type, discount_value |-> value,
     max_discount |-> max]

\* discount_codes of a {success: true} answer for a store
ServerCodes(storeId) ==
    IF storeId = 1
    THEN << Code("TEN", "percentage", 10, 0), Code("HALF", "percentage", 50, 100),
            Code("FIVER", "fixed", 500, 0) >>
    ELSE << Code("TWO", "fixed", 200, 0) >>

\* what the fetch of loadDiscountCodes can end with: a {success: true} answer
\* (with the codes of the store, or with none), a {success: false} answer, or
\* a network / parse error
VoucherAnswers(storeId) ==
    { [kind |-> "success", discount_codes |-> ServerCodes(storeId)],
      [kind |-> "success", discount_codes |-> <<>>],
      [kind |-> "failure", discount_codes |-> <<>>],
      [kind |-> "error", discount_codes |-> <<>>] }

\* what the user can type into a quantity input
TypedTexts ==
    { << "9", "9" >>, << "0" >>, << "1", "0", "0" >>, <<>>, << "7", "x" >>,
      << "-", "3" >> }

DigitChars == << "0", "1", "2", "3", "4", "5", "6", "7", "8", "9" >>

IsDigitChar(c) == \E d \in 1..10 : DigitChars[d] = c

CharValue(c) == (CHOOSE d \in 1..10 : DigitChars[d] = c) - 1

\* the longest prefix of decimal digits
RECURSIVE LeadingDigits(_)
LeadingDigits(text) ==
    IF text = <<>> \/ ~IsDigitChar(Head(text)) THEN <<>>
    ELSE << CharValue(Head(text)) >> \o LeadingDigits(Tail(text))

\* String(n) for n >= 0, as text
NumberText(n) == [k \in 1..Len(DigitsOf(n)) |-> DigitChars[DigitsOf(n)[k] + 1]]

\* CartUtils.parseInt(value): parseInt reads an optional sign and the leading
\* digits; NaN becomes the default 0
CartParseInt(text) ==
    LET negative == text # <<>> /\ Head(text) = "-"
        body == IF text # <<>> /\ Head(text) \in {"-", "+"} THEN Tail(text) ELSE text
        ds == LeadingDigits(body)
    IN  IF ds = <<>> THEN 0
        ELSE IF negative THEN 0 - ParseInt(ds) ELSE ParseInt(ds)

\* CartUtils.validateQuantity for a number
ValidateQuantity(num) == num >= MIN_QUANTITY /\ num <= MAX_QUANTITY

\* DiscountCalculator.calculateStoreDiscount
CalculateStoreDiscount(discount, storeTotal) ==
    IF discount = NoDiscount \/ storeTotal <= 0 THEN 0
    ELSE IF discount.discount_type = "percentage"
    THEN LET discountAmount == (storeTotal * discount.discount_value) \div 100
         IN  IF discount.max_discount # 0 /\ discountAmount > discount.max_discount
             THEN discount.max_discount
             ELSE discountAmount
    ELSE IF discount.discount_type = "fixed" THEN discount.discount_value
    ELSE 0

RECURSIVE SumOver(_, _)
SumOver(f, S) ==
    IF S = {} THEN 0
    ELSE LET x == CHOOSE x \in S : TRUE
         IN  f[x] + SumOver(f, S \ {x})

\* .amount-raw of each item row: the line total the page was rendered with
AmountRaw(qty) == [i \in Items |-> UnitPrice[i] * qty[i]]

\* storeOriginalTotals of updateTotal (0 for a store it leaves out)
StoreTotals(chk, qty) ==
    [s \in Stores |->
        SumOver(AmountRaw(qty), {i \in Items : StoreOf[i] = s /\ chk[i]})]

\* updateTotal with CartUI.updateTotalDisplay: what the footer shows
UpdateTotal(chk, qty, applied) ==
    LET storeTotals == StoreTotals(chk, qty)
        total == SumOver(storeTotals, Stores)
        count == Cardinality({i \in Items : chk[i]})
        discounts == [s \in Stores |->
                        IF storeTotals[s] > 0
                        THEN CalculateStoreDiscount(applied[s], storeTotals[s])
                        ELSE 0]
        totalDiscount == SumOver(discounts, Stores)
    IN  [originalTotalAmount |-> total,
         discountAmount |-> totalDiscount,
         totalAmount |-> IF totalDiscount > 0 THEN total - totalDiscount ELSE total,
         selectedCount |-> count]

CLast(op, arg, result) == [op |-> op, arg |-> arg, result |-> result]

NoCodes == [loaded |-> FALSE, codes |-> <<>>]

\* #discountCodeList before showShopVouchers has run
NoVouchers == [store |-> 0, codes |-> <<>>, loading |-> FALSE]

\* the page as the server renders it for the given quantities: inputs show the
\* quantities, no box is ticked, the script state is fresh; the applied
\* discounts are in sessionStorage and survive
PageLoad(qty, applied) ==
    /\ quantity' = qty
    /\ quantityInput' = [i \in Items |-> NumberText(qty[i])]
    /\ checked' = [i \in Items |-> FALSE]
    /\ cache' = [s \in Stores |-> NoCodes]
    /\ voucherLoads' = <<>>
    /\ voucherList' = NoVouchers
    /\ shown' = UpdateTotal(checked', qty, applied)
    /\ appliedDiscounts' = applied

----------------------------------------------------------------------------
(* Initial state: the script has loaded and DOMContentLoaded has run, which *)
(* issues the first directory fetch.                                        *)

Last(op, arg, result) ==
    [op |-> op, arg |-> arg, result |-> result, flag |-> FALSE]

Init ==
    /\ isOpen = FALSE
    /\ currentView = "list"
    /\ currentRoom = NoRoom
    /\ currentOtherUserId = 0
    /\ currentOtherUserAvatar = 0
    /\ currentIsBot = FALSE
    /\ filter = "all"
    /\ searchQuery = <<>>
    /\ chatRooms = <<>>
    /\ chatSocket = 0
    /\ sockets = [k \in Slots |-> NoSocket]
    /\ chatMessages = <<>>
    /\ chatList = <<>>
    /\ stash = {}
    /\ cleanups = {}
    /\ unreadBadge = 0
    /\ refreshes = << 0 >>
    /\ openTimers = <<>>
    /\ loads = <<>>
    /\ reads = <<>>
    /\ sends = <<>>
    /\ retryTimers = {}
    /\ retried = {}
    /\ transmitted = <<>>
    /\ alerts = {}
    /\ issued = [opens |-> 0, refreshes |-> 1]
    /\ last = Last("init", 0, "")
    /\ notifications = <<>>
    /\ notifySockets = << "CONNECTING" >>
    /\ reconnectTimers = 0
    /\ attempts = 1
    /\ listFetch = TRUE
    /\ markReads = <<>>
    /\ markAlls = 0
    /\ badge = -1
    /\ nlast = [op |-> "init", arg |-> 0, result |-> ""]
    /\ quantity = InitialQuantity
    /\ quantityInput = [i \in Items |-> NumberText(InitialQuantity[i])]
    /\ checked = [i \in Items |-> FALSE]
    /\ appliedDiscounts = [s \in Stores |-> NoDiscount]
    /\ cache = [s \in Stores |-> NoCodes]
    /\ voucherLoads = <<>>
    /\ voucherList = NoVouchers
    /\ shown = UpdateTotal([i \in Items |-> FALSE], InitialQuantity,
                           [s \in Stores |-> NoDiscount])
    /\ submitted = <<>>
    /\ clast = CLast("init", 0, "")

----------------------------------------------------------------------------
(* Building blocks shared by several handlers *)

\* showChatList without its "close WebSocket connection" block
ShowChatListKeepSocket(socks, cur) ==
    /\ currentView' = "list"
    /\ currentRoom' = NoRoom
    /\ currentOtherUserId' = 0
    /\ currentOtherUserAvatar' = 0
    /\ currentIsBot' = FALSE
    /\ sockets' = socks
    /\ chatSocket' = cur

\* showChatList that leaves the cached counterpart in place
ShowChatListKeepPeer(socks, cur) ==
    /\ currentView' = "list"
    /\ currentRoom' = NoRoom
    /\ UNCHANGED <<currentOtherUserId, currentOtherUserAvatar, currentIsBot>>
    /\ sockets' = SocketClose(socks, cur)
    /\ chatSocket' = 0

\* showChatList run with the given socket table and chatSocket: what it assigns
\* (the list / detail panes follow currentView)
ShowChatListEffect(socks, cur) ==
    /\ currentView' = "list"
    /\ currentRoom' = NoRoom
    /\ currentOtherUserId' = 0
    /\ currentOtherUserAvatar' = 0
    /\ currentIsBot' = FALSE
    /\ sockets' = SocketClose(socks, cur)
    /\ chatSocket' = 0

\* loadChatMessages: the pane and the fetches in flight after its synchronous part
LoadChatMessages(roomName, msgs, lds) ==
    IF Len(roomName) < 3
    THEN [chatMessages |-> << Placeholder("invalid") >>, loads |-> lds]
    ELSE [chatMessages |-> msgs,
          loads |-> Append(lds, [room |-> roomName,
                                 other |-> OtherUserId(roomName, CurrentUserId)])]

\* showChatDetail(roomName, otherUser, isBot) past its argument check
ShowChatDetail(roomName, user_id, avatar, isBot) ==
    LET ld == LoadChatMessages(roomName, << Placeholder("loading") >>, loads)
        ws == ConnectWebSocket(sockets, chatSocket, roomName, isBot)
    IN  /\ ws.chatSocket # 0
        /\ issued.opens < MaxOpens
        /\ issued' = [issued EXCEPT !.opens = @ + 1]
        /\ currentView' = "detail"
        /\ currentRoom' = roomName
        /\ currentOtherUserId' = user_id
        /\ currentOtherUserAvatar' = avatar
        /\ currentIsBot' = isBot
        /\ chatMessages' = ld.chatMessages
        /\ loads' = ld.loads
        /\ sockets' = ws.sockets
        /\ chatSocket' = ws.chatSocket

\* loadChatRooms: the fetches in flight after issuing one more; cont is the
\* userId of the openChatWidget call that chains on it, 0 when none does
LoadChatRooms(rs, cont) == Append(rs, cont)

session == <<currentView, currentRoom, currentOtherUserId,
             currentOtherUserAvatar, currentIsBot>>
transport == <<chatSocket, sockets>>
directory == <<filter, searchQuery, chatRooms, chatList, stash, cleanups,
               unreadBadge>>
sendLog == <<sends, retryTimers, retried, transmitted, alerts>>

----------------------------------------------------------------------------
(* Widget window *)

\* toggleChatWindow that shows the window without loading the room list
ToggleChatWindowNoLoad ==
    /\ isOpen' = ~isOpen
    /\ last' = Last("toggle", 0, IF isOpen THEN "closed" ELSE "opened")
    /\ UNCHANGED <<issued, session, transport, directory, sendLog, chatMessages,
                   refreshes, openTimers, loads, reads>>
    /\ UNCHANGED outsideChat

\* click on #chatToggleBtn
ToggleChatWindow ==
    /\ isOpen' = ~isOpen
    /\ refreshes' = IF ~isOpen THEN LoadChatRooms(refreshes, 0) ELSE refreshes
    /\ issued' = [issued EXCEPT !.refreshes = @ + Len(refreshes') - Len(refreshes)]
    /\ issued'.refreshes <= MaxRefreshes
    /\ last' = Last("toggle", 0, IF isOpen THEN "closed" ELSE "opened")
    /\ UNCHANGED <<session, transport, directory, sendLog, chatMessages,
                   openTimers, loads, reads>>
    /\ UNCHANGED outsideChat

\* window.openChatWidget(userId); userId 0 models the default null
OpenChatWidget(userId) ==
    LET afterToggle == IF ~isOpen THEN LoadChatRooms(refreshes, 0) ELSE refreshes
        afterLoad == IF userId # 0 THEN LoadChatRooms(afterToggle, userId)
                     ELSE afterToggle
    IN  /\ issued' = [issued EXCEPT !.refreshes = @ + Len(afterLoad) - Len(refreshes)]
        /\ issued'.refreshes <= MaxRefreshes
        /\ isOpen' = TRUE
        /\ refreshes' = afterLoad
        /\ last' = Last("openWidget", userId, IF isOpen THEN "" ELSE "opened")
        /\ UNCHANGED <<session, transport, directory, sendLog, chatMessages,
                       openTimers, loads, reads>>
        /\ UNCHANGED outsideChat

\* click on #closeBtn or #closeDetailBtn
CloseChatWindow ==
    /\ isOpen' = FALSE
    /\ ShowChatListEffect(SocketClose(sockets, chatSocket), 0)
    /\ last' = Last("close", 0, currentView)
    /\ UNCHANGED <<issued, directory, sendLog, chatMessages, refreshes, openTimers,
                   loads, reads>>
    /\ UNCHANGED outsideChat

\* click on #backToListBtn
ShowChatList ==
    /\ ShowChatListEffect(sockets, chatSocket)
    /\ last' = Last("back", 0, currentView)
    /\ UNCHANGED <<issued, isOpen, directory, sendLog, chatMessages, refreshes,
                   openTimers, loads, reads>>
    /\ UNCHANGED outsideChat

----------------------------------------------------------------------------
(* Room directory *)

\* Rows get fresh window[roomDataId] keys at every render (the key holds
\* Date.now()), so stash and cleanups speak of the rows on screen only.

\* a directory callback whose catch() also empties the cached rooms
RefreshDoneForget(i, ok) ==
    /\ i \in 1..Len(refreshes)
    /\ IF ok
       THEN \E data \in Responses :
              LET rooms == MapRooms(data.chat_rooms)
                  rows == RenderChatList(rooms, searchQuery, filter)
              IN  /\ chatRooms' = rooms
                  /\ chatList' = rows
                  /\ stash' = 1..Len(rows)
                  /\ unreadBadge' = data.total_unread
       ELSE /\ chatRooms' = <<>>
            /\ chatList' = <<>>
            /\ stash' = {}
            /\ UNCHANGED unreadBadge
    /\ cleanups' = {}
    /\ refreshes' = RemoveAt(refreshes, i)
    /\ openTimers' = IF refreshes[i] # 0 THEN Append(openTimers, refreshes[i])
                     ELSE openTimers
    /\ last' = Last("refreshDone", i, IF ok THEN "ok" ELSE "fail")
    /\ UNCHANGED <<issued, isOpen, session, transport, sendLog, chatMessages, filter,
                   searchQuery, loads, reads>>
    /\ UNCHANGED outsideChat

\* the fetch of loadChatRooms settles: then() on success, catch() on a network
\* or parse error; either way the promise openChatWidget chained on resolves
\* (refreshes is in the order of issue; i is the place of the settled fetch)
RefreshDone(i, ok) ==
    /\ i \in 1..Len(refreshes)
    /\ IF ok
       THEN \E data \in Responses :
              LET rooms == MapRooms(data.chat_rooms)
                  rows == RenderChatList(rooms, searchQuery, filter)
              IN  /\ chatRooms' = rooms
                  /\ chatList' = rows
                  /\ stash' = 1..Len(rows)
                  /\ unreadBadge' = data.total_unread
       ELSE /\ chatList' = <<>>
            /\ stash' = {}
            /\ UNCHANGED <<chatRooms, unreadBadge>>
    /\ cleanups' = {}
    /\ refreshes' = RemoveAt(refreshes, i)
    /\ openTimers' = IF refreshes[i] # 0 THEN Append(openTimers, refreshes[i])
                     ELSE openTimers
    /\ last' = Last("refreshDone", i, IF ok THEN "ok" ELSE "fail")
    /\ UNCHANGED <<issued, isOpen, session, transport, sendLog, chatMessages, filter,
                   searchQuery, loads, reads>>
    /\ UNCHANGED outsideChat

\* click on a .chat-filter-btn
FilterClick(f) ==
    /\ filter' = f
    /\ chatList' = RenderChatList(chatRooms, searchQuery, f)
    /\ stash' = 1..Len(chatList')
    /\ cleanups' = {}
    /\ last' = Last("filter", 0, f)
    /\ UNCHANGED <<issued, isOpen, session, transport, sendLog, chatMessages,
                   searchQuery, chatRooms, unreadBadge, refreshes, openTimers,
                   loads, reads>>
    /\ UNCHANGED outsideChat

\* input event on #chatSearchInput
HandleSearch(q) ==
    /\ searchQuery' = q
    /\ chatList' = RenderChatList(chatRooms, q, filter)
    /\ stash' = 1..Len(chatList')
    /\ cleanups' = {}
    /\ last' = Last("search", 0, "")
    /\ UNCHANGED <<issued, isOpen, session, transport, sendLog, chatMessages, filter,
                   chatRooms, unreadBadge, refreshes, openTimers, loads, reads>>
    /\ UNCHANGED outsideChat

\* click on row i of the list (showChatDetail sets display:none on the list, so
\* rows can be clicked in the list view only)
HandleChatItemClick(i) ==
    /\ currentView = "list"
    /\ i \in 1..Len(chatList)
    /\ IF i \in stash /\ chatList[i].roomName # NoRoom
       THEN /\ ShowChatDetail(chatList[i].roomName, chatList[i].user_id,
                              chatList[i].avatar, chatList[i].isBot)
            /\ cleanups' = cleanups \cup {i}
            /\ last' = Last("click", i, IF chatSocket # 0 THEN "switched" ELSE "opened")
       ELSE /\ last' = Last("click", i, "invalid")
            /\ UNCHANGED <<issued, session, transport, chatMessages, loads, cleanups>>
    /\ UNCHANGED <<isOpen, filter, searchQuery, chatRooms, chatList, stash,
                   unreadBadge, sendLog, refreshes, openTimers, reads>>
    /\ UNCHANGED outsideChat

\* the 1000 ms timer of handleChatItemClick
CleanupFire(i) ==
    /\ i \in cleanups
    /\ stash' = stash \ {i}
    /\ cleanups' = cleanups \ {i}
    /\ last' = Last("cleanup", i, "")
    /\ UNCHANGED <<issued, isOpen, session, transport, sendLog, chatMessages, filter,
                   searchQuery, chatRooms, chatList, unreadBadge, refreshes,
                   openTimers, loads, reads>>
    /\ UNCHANGED outsideChat

\* chatState.chatRooms.find(r => r.userId === parseInt(userId)); 0 when absent
FindRoom(rooms, userId) ==
    LET hits == {k \in 1..Len(rooms) : rooms[k].userId = userId}
    IN  IF hits = {} THEN 0 ELSE CHOOSE k \in hits : \A j \in hits : k <= j

\* the 500 ms timer of openChatWidget(userId) (otherUser is passed without avatar)
OpenTimerFire(i) ==
    /\ i \in 1..Len(openTimers)
    /\ openTimers' = RemoveAt(openTimers, i)
    /\ LET k == FindRoom(chatRooms, openTimers[i])
       IN  IF k # 0 /\ chatRooms[k].roomName # NoRoom
           THEN /\ ShowChatDetail(chatRooms[k].roomName, chatRooms[k].userId, 0,
                                  chatRooms[k].isBot)
                /\ last' = Last("openTimer", openTimers[i],
                                IF chatSocket # 0 THEN "switched" ELSE "opened")
           ELSE /\ last' = Last("openTimer", openTimers[i], "notfound")
                /\ UNCHANGED <<issued, session, transport, chatMessages, loads>>
    /\ UNCHANGED <<isOpen, directory, sendLog, refreshes, reads>>
    /\ UNCHANGED outsideChat

----------------------------------------------------------------------------
(* Message history and read receipts *)

\* markMessagesAsRead: the receipts in flight after issuing one more
MarkMessagesAsRead(rds, otherUserId) == Append(rds, otherUserId)

\* the fetch of loadChatMessages settles: the second then() on a 2xx answer,
\* catch() on a network error or a non-2xx status
HistoryDone(i, ok) ==
    /\ i \in 1..Len(loads)
    /\ IF ok
       THEN \E data \in Histories(loads[i].other) :
              /\ chatMessages' = RenderHistory(chatMessages, data, loads[i].room)
              /\ reads' = IF data # <<>>
                          THEN MarkMessagesAsRead(reads, loads[i].other)
                          ELSE reads
              /\ last' = Last("historyDone", Len(data), "ok")
       ELSE /\ chatMessages' = << Placeholder("error") >>
            /\ last' = Last("historyDone", 0, "fail")
            /\ UNCHANGED reads
    /\ loads' = RemoveAt(loads, i)
    /\ UNCHANGED <<issued, isOpen, session, transport, directory, sendLog, refreshes,
                   openTimers>>
    /\ UNCHANGED outsideChat

\* a receipt callback that reloads the room list whatever the answer was
ReadDoneAlways(i, ok) ==
    /\ i \in 1..Len(reads)
    /\ reads' = RemoveAt(reads, i)
    /\ refreshes' = LoadChatRooms(refreshes, 0)
    /\ issued' = [issued EXCEPT !.refreshes = @ + 1]
    /\ issued'.refreshes <= MaxRefreshes
    /\ last' = Last("readDone", reads[i], IF ok THEN "ok" ELSE "fail")
    /\ UNCHANGED <<isOpen, session, transport, directory, sendLog, chatMessages,
                   openTimers, loads>>
    /\ UNCHANGED outsideChat

\* the POST of markMessagesAsRead settles: ok is {success: true}; anything else
\* (success false, network or parse error) only logs
ReadDone(i, ok) ==
    /\ i \in 1..Len(reads)
    /\ reads' = RemoveAt(reads, i)
    /\ refreshes' = IF ok THEN LoadChatRooms(refreshes, 0) ELSE refreshes
    /\ issued' = [issued EXCEPT !.refreshes = @ + Len(refreshes') - Len(refreshes)]
    /\ issued'.refreshes <= MaxRefreshes
    /\ last' = Last("readDone", reads[i], IF ok THEN "ok" ELSE "fail")
    /\ UNCHANGED <<isOpen, session, transport, directory, sendLog, chatMessages,
                   openTimers, loads>>
    /\ UNCHANGED outsideChat

----------------------------------------------------------------------------
(* Transport events *)

\* the connection of socket s is established (onopen only logs)
SocketOpen(s) ==
    /\ s \in DOMAIN sockets
    /\ sockets[s].readyState = "CONNECTING"
    /\ sockets' = [sockets EXCEPT ![s].readyState = "OPEN"]
    /\ last' = Last("socketOpen", s, "")
    /\ UNCHANGED <<issued, isOpen, session, chatSocket, directory, sendLog,
                   chatMessages, refreshes, openTimers, loads, reads>>
    /\ UNCHANGED outsideChat

\* an onclose handler that reconnects the room's socket by itself
SocketDropReconnect(s) ==
    LET ws == ConnectWebSocket(sockets, chatSocket, currentRoom, currentIsBot)
    IN  /\ s \in DOMAIN sockets
        /\ sockets[s].readyState \in {"CONNECTING", "OPEN"}
        /\ ws.chatSocket # 0
        /\ sockets' = ws.sockets
        /\ chatSocket' = ws.chatSocket
        /\ last' = Last("socketDrop", s, "")
        /\ UNCHANGED <<issued, isOpen, session, directory, sendLog,
                       chatMessages, refreshes, openTimers, loads, reads>>
        /\ UNCHANGED outsideChat

\* socket s fails or is closed by the peer (onerror and onclose only log)
SocketDrop(s) ==
    /\ s \in DOMAIN sockets
    /\ sockets[s].readyState \in {"CONNECTING", "OPEN"}
    /\ sockets' = [sockets EXCEPT ![s].readyState = "CLOSED"]
    /\ last' = Last("socketDrop", s, "")
    /\ UNCHANGED <<issued, isOpen, session, chatSocket, directory, sendLog,
                   chatMessages, refreshes, openTimers, loads, reads>>
    /\ UNCHANGED outsideChat

LiveCount(msgs) == Cardinality({k \in 1..Len(msgs) : msgs[k].kind = "live"})

\* onmessage of socket s with frame {sender_id, message, is_bot}; a browser
\* delivers frames only while the socket is OPEN.  isFromBot is computed by the
\* handler and never read.
OnMessage(s, sender_id, message, is_bot) ==
    /\ s \in DOMAIN sockets
    /\ sockets[s].readyState = "OPEN"
    /\ IF DeliveryFilter(sender_id, CurrentUserId, currentIsBot)
       THEN /\ LiveCount(chatMessages) < MaxFrames
            /\ chatMessages' =
                 AddMessageToChat(chatMessages,
                     Entry("live", message, sender_id, NoRoom, 0))
            /\ last' = [Last("frame", sender_id, "surfaced") EXCEPT !.flag = is_bot]
       ELSE /\ last' = [Last("frame", sender_id, "dropped") EXCEPT !.flag = is_bot]
            /\ UNCHANGED chatMessages
    /\ UNCHANGED <<issued, isOpen, session, transport, directory, sendLog, refreshes,
                   openTimers, loads, reads>>
    /\ UNCHANGED outsideChat

----------------------------------------------------------------------------
(* Sending *)

\* what WebSocket.send was called with, and on which socket
Frame(sock, m, text) ==
    [room |-> sock.room, bot |-> sock.bot, msg |-> m, content |-> text]

\* sendMessage past its two checks: the optimistic append, then the send or the
\* reconnect with its retry timer
SendToRoom(message) ==
    LET m == Len(sends) + 1
    IN  /\ m <= MaxSends
        /\ chatMessages' =
             AddMessageToChat(chatMessages,
                 Entry("optimistic", message, CurrentUserId, NoRoom, m))
        /\ sends' = Append(sends, [text |-> message, room |-> currentRoom,
                                   direct |-> IsReady(sockets, chatSocket)])
        /\ IF IsReady(sockets, chatSocket)
           THEN /\ transmitted' =
                     Append(transmitted, Frame(sockets[chatSocket], m, message))
                /\ last' = Last("send", m, "sent")
                /\ UNCHANGED <<transport, retryTimers>>
           ELSE LET ws == ConnectWebSocket(sockets, chatSocket, currentRoom,
                                           currentIsBot)
                IN  /\ ws.chatSocket # 0
                    /\ sockets' = ws.sockets
                    /\ chatSocket' = ws.chatSocket
                    /\ retryTimers' = retryTimers \cup {m}
                    /\ last' = Last("send", m, "reconnect")
                    /\ UNCHANGED transmitted
        /\ UNCHANGED <<retried, alerts>>

\* sendMessage that appends the optimistic entry before it checks the room
SendMessageAppendFirst(input) ==
    LET message == Trim(input)
    IN  IF message = <<>>
        THEN /\ last' = Last("send", 0, "empty")
             /\ UNCHANGED <<transport, sendLog, chatMessages>>
        ELSE IF currentRoom = NoRoom
        THEN /\ chatMessages' =
                  AddMessageToChat(chatMessages,
                      Entry("optimistic", message, CurrentUserId, NoRoom, 0))
             /\ alerts' = alerts \cup {[kind |-> "noroom", msg |-> 0]}
             /\ last' = Last("send", 0, "noroom")
             /\ UNCHANGED <<transport, sends, retryTimers, retried, transmitted>>
        ELSE SendToRoom(message)

\* sendMessage that checks the room before it checks the text
SendMessageRoomFirst(input) ==
    LET message == Trim(input)
    IN  IF currentRoom = NoRoom
        THEN /\ alerts' = alerts \cup {[kind |-> "noroom", msg |-> 0]}
             /\ last' = Last("send", 0, IF message = <<>> THEN "empty" ELSE "noroom")
             /\ UNCHANGED <<transport, sends, retryTimers, retried, transmitted,
                            chatMessages>>
        ELSE IF message = <<>>
        THEN /\ last' = Last("send", 0, "empty")
             /\ UNCHANGED <<transport, sendLog, chatMessages>>
        ELSE SendToRoom(message)

\* sendMessage with the given content of #chatMessageInput
SendMessage(input) ==
    LET message == Trim(input)
    IN  IF message = <<>>
        THEN /\ last' = Last("send", 0, "empty")
             /\ UNCHANGED <<transport, sendLog, chatMessages>>
        ELSE IF currentRoom = NoRoom
        THEN /\ alerts' = alerts \cup {[kind |-> "noroom", msg |-> 0]}
             /\ last' = Last("send", 0, "noroom")
             /\ UNCHANGED <<transport, sends, retryTimers, retried, transmitted,
                            chatMessages>>
        ELSE SendToRoom(message)

\* click on #chatSendBtn / #chatSendIconBtn, or Enter in #chatMessageInput
SendMessageClick(input) ==
    /\ SendMessage(input)
    /\ UNCHANGED <<issued, isOpen, session, directory, refreshes, openTimers, loads,
                   reads>>
    /\ UNCHANGED outsideChat

\* a retry timer that reconnects and arms itself again when the socket is not open
RetryFireAgain(m) ==
    /\ m \in retryTimers
    /\ retried' = retried \cup {m}
    /\ IF IsReady(sockets, chatSocket)
       THEN /\ transmitted' =
                 Append(transmitted, Frame(sockets[chatSocket], m, sends[m].text))
            /\ retryTimers' = retryTimers \ {m}
            /\ last' = Last("retry", m, "sent")
            /\ UNCHANGED <<alerts, transport>>
       ELSE LET ws == ConnectWebSocket(sockets, chatSocket, currentRoom, currentIsBot)
            IN  /\ ws.chatSocket # 0
                /\ sockets' = ws.sockets
                /\ chatSocket' = ws.chatSocket
                /\ retryTimers' = retryTimers
                /\ last' = Last("retry", m, "again")
                /\ UNCHANGED <<alerts, transmitted>>
    /\ UNCHANGED <<issued, isOpen, session, directory, sends, chatMessages,
                   refreshes, openTimers, loads, reads>>
    /\ UNCHANGED outsideChat

\* a retry timer that takes the optimistic entry out of the pane when it alerts
RetryFireRemove(m) ==
    /\ m \in retryTimers
    /\ retryTimers' = retryTimers \ {m}
    /\ retried' = retried \cup {m}
    /\ IF IsReady(sockets, chatSocket)
       THEN /\ transmitted' =
                 Append(transmitted, Frame(sockets[chatSocket], m, sends[m].text))
            /\ last' = Last("retry", m, "sent")
            /\ UNCHANGED <<alerts, chatMessages>>
       ELSE /\ alerts' = alerts \cup {[kind |-> "sendfail", msg |-> m]}
            /\ chatMessages' = SelectSeq(chatMessages, LAMBDA e : e.ref # m)
            /\ last' = Last("retry", m, "alert")
            /\ UNCHANGED transmitted
    /\ UNCHANGED <<issued, isOpen, session, transport, directory, sends,
                   refreshes, openTimers, loads, reads>>
    /\ UNCHANGED outsideChat

\* the 500 ms timer sendMessage sets after its reconnect
RetryFire(m) ==
    /\ m \in retryTimers
    /\ retryTimers' = retryTimers \ {m}
    /\ retried' = retried \cup {m}
    /\ IF IsReady(sockets, chatSocket)
       THEN /\ transmitted' =
                 Append(transmitted, Frame(sockets[chatSocket], m, sends[m].text))
            /\ last' = Last("retry", m, "sent")
            /\ UNCHANGED alerts
       ELSE /\ alerts' = alerts \cup {[kind |-> "sendfail", msg |-> m]}
            /\ last' = Last("retry", m, "alert")
            /\ UNCHANGED transmitted
    /\ UNCHANGED <<issued, isOpen, session, transport, directory, sends, chatMessages,
                   refreshes, openTimers, loads, reads>>
    /\ UNCHANGED outsideChat

----------------------------------------------------------------------------
\* every callback of the widget
Next ==
    \/ ToggleChatWindow
    \/ \E userId \in {0, 2} : OpenChatWidget(userId)
    \/ CloseChatWindow
    \/ ShowChatList
    \/ \E i \in 1..Len(refreshes), ok \in BOOLEAN : RefreshDone(i, ok)
    \/ \E f \in {"all", "unread"} : FilterClick(f)
    \/ \E q \in Queries : HandleSearch(q)
    \/ \E i \in 1..Len(chatList) : HandleChatItemClick(i)
    \/ \E i \in cleanups : CleanupFire(i)
    \/ \E i \in 1..Len(openTimers) : OpenTimerFire(i)
    \/ \E i \in 1..Len(loads), ok \in BOOLEAN : HistoryDone(i, ok)
    \/ \E i \in 1..Len(reads), ok \in BOOLEAN : ReadDone(i, ok)
    \/ \E s \in Slots : SocketOpen(s)
    \/ \E s \in Slots : SocketDrop(s)
    \/ \E s \in Slots, sender_id \in FrameSenders, message \in FrameTexts,
          is_bot \in BOOLEAN :
         OnMessage(s, sender_id, message, is_bot)
    \/ \E input \in Inputs : SendMessageClick(input)
    \/ \E m \in retryTimers : RetryFire(m)

Spec == Init /\ [][Next]_vars

\* The callbacks that assign isOpen, the session fields or the sockets, or that
\* decide whether one of those is enabled.  The callbacks left out (history and
\* receipt answers, inbound frames, stash cleanup, filter and search) leave
\* these variables unchanged and enable nothing here.
NextTransport ==
    \/ ToggleChatWindow
    \/ \E userId \in {0, 2} : OpenChatWidget(userId)
    \/ CloseChatWindow
    \/ ShowChatList
    \/ \E i \in 1..Len(refreshes), ok \in BOOLEAN : RefreshDone(i, ok)
    \/ \E i \in 1..Len(chatList) : HandleChatItemClick(i)
    \/ \E i \in 1..Len(openTimers) : OpenTimerFire(i)
    \/ \E s \in Slots : SocketOpen(s)
    \/ \E s \in Slots : SocketDrop(s)
    \/ \E input \in Inputs : Len(sends) < MaxSliceSends /\ SendMessageClick(input)
    \/ \E m \in retryTimers : RetryFire(m)

SpecTransport == Init /\ [][NextTransport]_vars

\* The callbacks that assign the message pane, or that decide what they write.
NextStream ==
    \/ \E i \in 1..Len(refreshes), ok \in BOOLEAN : RefreshDone(i, ok)
    \/ \E i \in 1..Len(chatList) : HandleChatItemClick(i)
    \/ ShowChatList
    \/ \E i \in 1..Len(loads), ok \in BOOLEAN : HistoryDone(i, ok)
    \/ \E s \in Slots : SocketOpen(s)
    \/ \E s \in Slots : SocketDrop(s)
    \/ \E s \in Slots, sender_id \in FrameSenders, message \in FrameTexts,
          is_bot \in BOOLEAN :
         OnMessage(s, sender_id, message, is_bot)
    \/ \E input \in Inputs : Len(sends) < MaxSliceSends /\ SendMessageClick(input)
    \/ \E m \in retryTimers : RetryFire(m)

SpecStream == Init /\ [][NextStream]_vars

\* The callbacks that assign the cached rooms, the filter, the query or the rows
\* of the list.
NextDirectory ==
    \/ ToggleChatWindow
    \/ \E i \in 1..Len(refreshes), ok \in BOOLEAN : RefreshDone(i, ok)
    \/ \E f \in {"all", "unread"} : FilterClick(f)
    \/ \E q \in Queries : HandleSearch(q)

SpecDirectory == Init /\ [][NextDirectory]_vars

\* The callbacks that issue or settle history fetches and read receipts.
NextHistory ==
    \/ \E i \in 1..Len(refreshes), ok \in BOOLEAN : RefreshDone(i, ok)
    \/ \E i \in 1..Len(chatList) : HandleChatItemClick(i)
    \/ ShowChatList
    \/ \E i \in 1..Len(loads), ok \in BOOLEAN : HistoryDone(i, ok)
    \/ \E i \in 1..Len(reads), ok \in BOOLEAN : ReadDone(i, ok)

SpecHistory == Init /\ [][NextHistory]_vars

\* The callbacks that run sendMessage or decide which branch it takes.
NextSend ==
    \/ \E i \in 1..Len(refreshes), ok \in BOOLEAN : RefreshDone(i, ok)
    \/ \E i \in 1..Len(chatList) : HandleChatItemClick(i)
    \/ ShowChatList
    \/ \E s \in Slots : SocketOpen(s)
    \/ \E s \in Slots : SocketDrop(s)
    \/ \E input \in Inputs : SendMessageClick(input)
    \/ \E m \in retryTimers : RetryFire(m)

SpecSend == Init /\ [][NextSend]_vars

----------------------------------------------------------------------------
(* Properties *)

\* the sockets on which close() has not been called
Alive(socks) == {k \in DOMAIN socks : socks[k] # NoSocket}

\* the frames handed to WebSocket.send for the sendMessage call m
Transmissions(m) == {k \in 1..Len(transmitted) : transmitted[k].msg = m}

\* the entries of the pane that sendMessage call m appended
OptimisticOf(msgs, m) ==
    {k \in 1..Len(msgs) : msgs[k].kind = "optimistic" /\ msgs[k].ref = m}

\* C1: whatever the widget has been through (open, close, toggle, room
\* selection, back, openChatWidget, sendMessage and its reconnect), at most one
\* socket has been created and not closed, and that socket is the one
\* chatState.chatSocket refers to: a socket of an earlier room is closed before
\* the next one is created.
AtMostOneTransport ==
    /\ Cardinality(Alive(sockets)) <= 1
    /\ Alive(sockets) \subseteq {chatSocket}

\* C1 witness: openChatWidget(userId) switched rooms while a socket existed, and
\* exactly one socket, the new room's, is left.
AtMostOneTransportWitness ==
    /\ last.op = "openTimer"
    /\ last.result = "switched"
    /\ Cardinality(Alive(sockets)) = 1
    /\ sockets[chatSocket].room = currentRoom

\* C2: chatState.chatSocket is non-null exactly when chatState.currentView is
\* 'detail'.
TransportIffDetail == (chatSocket # 0) <=> (currentView = "detail")

\* C2 witness: a room is shown whose socket the peer has dropped; chatSocket
\* still refers to it.
TransportIffDetailWitness ==
    /\ last.op = "socketDrop"
    /\ currentView = "detail"
    /\ chatSocket # 0
    /\ sockets[chatSocket].readyState = "CLOSED"

\* C3: after the back button was pressed in the detail view, the socket has
\* been closed and chatSocket is null, no socket is left unclosed, currentRoom
\* is null and the cached counterpart (id, avatar, bot flag) is cleared.
BackTearsDown ==
    (last.op = "back" /\ last.result = "detail") =>
        /\ currentView = "list"
        /\ chatSocket = 0
        /\ Alive(sockets) = {}
        /\ currentRoom = NoRoom
        /\ currentOtherUserId = 0
        /\ currentOtherUserAvatar = 0
        /\ currentIsBot = FALSE

\* C3 witness: back was pressed in the detail view of a room that had been
\* opened from the list.
BackTearsDownWitness ==
    /\ last.op = "back"
    /\ last.result = "detail"
    /\ issued.opens > 0
    /\ sockets = [k \in Slots |-> NoSocket]

\* C4: a step that takes the widget from open to closed in the detail view
\* (close button or toggle button) closes the socket, sets chatSocket to null
\* and clears currentRoom.
CloseTearsDown ==
    [][(isOpen /\ ~isOpen' /\ currentView = "detail") =>
          (chatSocket' = 0 /\ Alive(sockets') = {} /\ currentRoom' = NoRoom)]_vars

\* C5: the answer to a history fetch issued for a room other than the room now
\* shown leaves the pane as it is.
LateHistoryDiscarded ==
    [][\A i \in 1..Len(loads) :
          ( /\ HistoryDone(i, TRUE) \/ HistoryDone(i, FALSE)
            /\ currentRoom # NoRoom
            /\ loads[i].room # currentRoom )
          => chatMessages' = chatMessages]_vars

\* C6: a live or optimistic entry that was appended before the history of the
\* room shown has arrived is still in the pane after that history is rendered.
EarlyEntriesKept ==
    [][\A i \in 1..Len(loads) :
          ( /\ HistoryDone(i, TRUE)
            /\ loads[i].room = currentRoom )
          => \A k \in 1..Len(chatMessages) :
                chatMessages[k].kind \in {"live", "optimistic"} =>
                    \E j \in 1..Len(chatMessages') :
                        chatMessages'[j] = chatMessages[k]]_vars

\* C7, state part: a sendMessage call that found the socket not open has exactly
\* one retry, pending or fired; once fired it has either transmitted the
\* message once or raised the send-failure alert, never both; no message is
\* transmitted twice.
RetryOnceState ==
    \A m \in 1..Len(sends) :
        LET failed == [kind |-> "sendfail", msg |-> m] \in alerts
        IN  /\ Cardinality(Transmissions(m)) <= 1
            /\ sends[m].direct =>
                  /\ m \notin retryTimers \cup retried
                  /\ Cardinality(Transmissions(m)) = 1
                  /\ ~failed
            /\ ~sends[m].direct =>
                  /\ (m \in retryTimers) # (m \in retried)
                  /\ m \in retryTimers => Transmissions(m) = {} /\ ~failed
                  /\ m \in retried => (Cardinality(Transmissions(m)) = 1) # failed

\* C7, step part: the sendMessage call that finds the socket not open starts
\* one reconnect (one new CONNECTING socket for the room, the only socket left)
\* and arms one timer; the timer's callback starts no reconnect and arms
\* nothing.
RetryOnceStep ==
    /\ (sends' # sends /\ ~sends'[Len(sends')].direct) =>
          /\ Cardinality(Alive(sockets')) = 1
          /\ chatSocket' \in Alive(sockets')
          /\ sockets'[chatSocket'] = [room |-> currentRoom, bot |-> currentIsBot,
                                      readyState |-> "CONNECTING"]
          /\ retryTimers' = retryTimers \cup {Len(sends')}
          /\ transmitted' = transmitted
    /\ retried' # retried =>
          /\ sockets' = sockets
          /\ chatSocket' = chatSocket
          /\ retryTimers' \subseteq retryTimers
          /\ Cardinality(retried') = Cardinality(retried) + 1

\* C7: sendMessage with non-empty text, a room and a socket that is not open
\* starts exactly one reconnect and exactly one retry; the retry transmits the
\* message once or raises the send-failure alert; nothing is transmitted twice
\* and nothing further is attempted or queued.
RetryOnce == []RetryOnceState /\ [][RetryOnceStep]_vars

\* C7 witness: the retry of a send that had to reconnect found the new socket
\* open and transmitted the message.
RetryOnceWitness ==
    /\ last.op = "retry"
    /\ last.result = "sent"
    /\ ~sends[last.arg].direct
    /\ Cardinality(Transmissions(last.arg)) = 1

\* C8: every sendMessage call with non-empty text and a room appends exactly one
\* optimistic entry to the pane, whether the socket is open or not, and the
\* retry timer leaves the pane as it is, also when it raises the alert.
OptimisticAppend ==
    [][/\ sends' # sends =>
             chatMessages' =
                 Append(RemoveFirstPlaceholder(chatMessages),
                        Entry("optimistic", sends'[Len(sends')].text, CurrentUserId,
                              NoRoom, Len(sends')))
       /\ retried' # retried => chatMessages' = chatMessages]_vars

\* C8 witness: the retry raised the send-failure alert and the optimistic entry
\* of that send is in the pane.
OptimisticAppendWitness ==
    /\ last.op = "retry"
    /\ last.result = "alert"
    /\ [kind |-> "sendfail", msg |-> last.arg] \in alerts
    /\ Cardinality(OptimisticOf(chatMessages, last.arg)) = 1

\* C9: once a submission has been appended optimistically and transmitted, a
\* frame that carries the current user's own sender id and the submitted text
\* adds no second entry to the pane.
EchoAddsNoEntry ==
    [][\A m \in 1..Len(sends) :
          ( /\ Transmissions(m) # {}
            /\ OptimisticOf(chatMessages, m) # {}
            /\ last'.op = "frame"
            /\ last'.arg = CurrentUserId
            /\ chatMessages' # chatMessages )
          => chatMessages'[Len(chatMessages')].content # sends[m].text]_vars

\* C10: a frame is appended to the pane only if its sender_id differs from
\* currentUserId or the room shown is a bot room; a frame of the current user
\* in a room that is not a bot room is never appended.
FrameFilter ==
    [][(last'.op = "frame" /\ chatMessages' # chatMessages) =>
          (last'.arg # CurrentUserId \/ currentIsBot)]_vars

\* C10 witness: a frame of the current user arrived in a room that is not a bot
\* room and was dropped.
FrameFilterWitness ==
    /\ last.op = "frame"
    /\ last.arg = CurrentUserId
    /\ last.result = "dropped"
    /\ currentRoom # NoRoom
    /\ ~currentIsBot

\* C11: in a bot room every inbound frame is surfaced as a new entry of the
\* pane, whatever its sender_id is (the current user's, 0 or absent included).
BotRoomSurfacesAll ==
    [][\A s \in Slots, sender_id \in FrameSenders, message \in FrameTexts :
          ( /\ s = chatSocket
            /\ sockets[s].readyState = "OPEN"
            /\ currentIsBot
            /\ last'.op = "frame"
            /\ last'.arg = sender_id
            /\ last' # last )
          => chatMessages' =
                 AddMessageToChat(chatMessages,
                     Entry("live", message, sender_id, NoRoom, 0))]_vars

\* C12: sendMessage with non-empty text while currentRoom is null raises the
\* "select a conversation" alert and changes nothing else: the pane, the
\* sockets, chatSocket, what was transmitted, the pending retries, the view and
\* the room stay as they are.
NoActiveRoomAlert ==
    [][\A input \in Inputs :
          ( /\ SendMessageClick(input)
            /\ Trim(input) # <<>>
            /\ currentRoom = NoRoom )
          => /\ [kind |-> "noroom", msg |-> 0] \in alerts'
             /\ alerts' \ alerts \subseteq {[kind |-> "noroom", msg |-> 0]}
             /\ UNCHANGED <<chatMessages, sockets, chatSocket, transmitted, sends,
                            retryTimers, retried, currentView, currentRoom,
                            currentOtherUserId, currentOtherUserAvatar,
                            currentIsBot, loads, reads, refreshes>>]_vars

\* C12 witness: sendMessage ran with text in the list view after a room had
\* been opened and left; the alert was raised and the pane still holds what
\* that room left in it.
NoActiveRoomAlertWitness ==
    /\ last.op = "send"
    /\ last.result = "noroom"
    /\ currentRoom = NoRoom
    /\ chatSocket = 0
    /\ [kind |-> "noroom", msg |-> 0] \in alerts
    /\ issued.opens > 0
    /\ sends = <<>>

\* C13: sendMessage with text that trims to empty changes nothing in any
\* state: no entry, no transmission, no reconnect, no retry timer, no alert
\* (also when currentRoom is null), and the session stays as it is.
EmptySendNoOp ==
    [][\A input \in Inputs :
          (SendMessageClick(input) /\ Trim(input) = <<>>)
          => UNCHANGED <<chatMessages, sockets, chatSocket, transmitted, sends,
                         retryTimers, retried, alerts, isOpen, currentView,
                         currentRoom, currentOtherUserId, currentOtherUserAvatar,
                         currentIsBot, loads, reads, refreshes, openTimers>>]_vars

\* C13 witness: sendMessage ran with blank text while no room was selected and
\* raised no alert.
EmptySendNoOpWitness ==
    /\ last.op = "send"
    /\ last.result = "empty"
    /\ currentRoom = NoRoom
    /\ alerts = {}
    /\ chatRooms # <<>>

\* C14: selecting a row whose room name has fewer than three '_'-delimited
\* segments puts the error placeholder into the pane, issues no history fetch
\* and no read receipt, and creates no socket for that room.
MalformedRoomRefused ==
    [][\A i \in 1..Len(chatList) :
          ( /\ HandleChatItemClick(i)
            /\ i \in stash
            /\ chatList[i].roomName # NoRoom
            /\ Len(chatList[i].roomName) < 3 )
          => /\ chatMessages' = << Placeholder("invalid") >>
             /\ loads' = loads
             /\ reads' = reads
             /\ \A k \in Alive(sockets') :
                   sockets'[k].room # chatList[i].roomName]_vars

\* the segments of the room name room_<a>_<b>_<x> after split('_') and
\* parseInt; the prefix and the suffix are written 0
RoomParts(a, b) == << 0, ParseInt(DigitsOf(a)), ParseInt(DigitsOf(b)), 0 >>

\* C15: for two distinct participant ids a and b and the current user a, a room
\* name whose participant segments are a and b in either order resolves the
\* counterpart b; every history fetch in flight was issued for the participant
\* of its room that is not the current user.
CounterpartResolved ==
    /\ \A a, b \in UserIds :
          a # b => /\ OtherUserId(RoomParts(a, b), a) = b
                   /\ OtherUserId(RoomParts(b, a), a) = b
    /\ OtherUserId(RoomParts(7, 42), 7) = 42
    /\ \A i \in 1..Len(loads) :
          /\ loads[i].other # CurrentUserId
          /\ {loads[i].other, CurrentUserId} = {loads[i].room[2], loads[i].room[3]}

\* C15 witness: fetches are in flight for a room that names the current user
\* first and for a room that names the current user second, each for the
\* other participant.
CounterpartResolvedWitness ==
    /\ \E i \in 1..Len(loads) :
          loads[i].room[2] = CurrentUserId /\ loads[i].other = loads[i].room[3]
    /\ \E i \in 1..Len(loads) :
          loads[i].room[3] = CurrentUserId /\ loads[i].other = loads[i].room[2]

\* whether name contains query when the letter case of both is ignored
ContainsIgnoringCase(name, query) ==
    \E i \in 0..(Len(name) - Len(query)) :
        \A j \in 1..Len(query) : LowerChar(name[i + j]) = LowerChar(query[j])

\* whether a cached room passes the query and the filter
Passes(room, query, filt) ==
    /\ query = <<>> \/ ContainsIgnoringCase(room.name, query)
    /\ filt = "unread" => room.unreadCount > 0

\* whether rows shows exactly the rooms that pass, in the order of rooms
IsFilteredList(rows, rooms, query, filt) ==
    LET hits == {k \in 1..Len(rooms) : Passes(rooms[k], query, filt)}
    IN  /\ Len(rows) = Cardinality(hits)
        /\ \E f \in [1..Len(rows) -> 1..Len(rooms)] :
              /\ \A i, j \in 1..Len(rows) : i < j => f[i] < f[j]
              /\ {f[i] : i \in 1..Len(rows)} = hits
              /\ \A i \in 1..Len(rows) :
                    /\ rows[i].roomName = rooms[f[i]].roomName
                    /\ rows[i].user_id = rooms[f[i]].userId
                    /\ rows[i].full_name = rooms[f[i]].name

\* the room collections and queries the filters are applied to outside a run:
\* every sequence of at most two of the server's rooms, and the server's list
RoomLists ==
    LET all == MapRooms(ServerRooms)
    IN  {<<>>, all} \cup {<< all[i] >> : i \in 1..Len(all)}
               \cup {<< all[i], all[j] >> : i, j \in 1..Len(all)}

SearchTexts == Queries \cup { <<"a", "n", "n">>, <<"B">>, <<"x">> }

\* C16, function part: for every collection, query and filter the rendered rows
\* are exactly the rooms that pass, in order; of Anna (3 unread) and Bob (none)
\* the unread filter and the query "ann" each leave exactly Anna.
FilteredListFunction ==
    /\ \A rooms \in RoomLists, q \in SearchTexts, f \in {"all", "unread"} :
          IsFilteredList(RenderChatList(rooms, q, f), rooms, q, f)
    /\ LET two == SubSeq(MapRooms(ServerRooms), 1, 2)
       IN  /\ FilteredRooms(two, <<>>, "unread") = << two[1] >>
           /\ FilteredRooms(two, <<"a", "n", "n">>, "all") = << two[1] >>

\* C16, step part: whenever the list is rendered (a filter click, a search input, a
\* successful refresh) its rows are exactly the cached rooms, in their order,
\* whose name contains the query case-insensitively (all when the query is
\* empty) and, under the unread filter, whose unreadCount is positive;
\* filtering and searching leave the cached rooms as they are.
FilteredListStep ==
    /\ ( \/ \E f \in {"all", "unread"} : FilterClick(f)
         \/ \E q \in Queries : HandleSearch(q)
         \/ \E i \in 1..Len(refreshes) : RefreshDone(i, TRUE) )
       => IsFilteredList(chatList', chatRooms', searchQuery', filter')
    /\ ( \/ \E f \in {"all", "unread"} : FilterClick(f)
         \/ \E q \in Queries : HandleSearch(q) )
       => chatRooms' = chatRooms

\* C16: the filtered list is exactly the sub-sequence of the cached rooms, in
\* their order, that pass the query (case-insensitive containment in the name,
\* all rooms when the query is empty) and the filter (unreadCount > 0 under
\* unread); filtering does not modify the cached rooms.
FilteredListExact == []FilteredListFunction /\ [][FilteredListStep]_vars

\* C16 witness: three rooms are cached, the query "AN" and the unread filter
\* are set, and the list shows Anna and Can but not Bob.
FilteredListExactWitness ==
    /\ Len(chatRooms) = 3
    /\ searchQuery = <<"A", "N">>
    /\ filter = "unread"
    /\ Len(chatList) = 2
    /\ chatList[1].full_name = <<"A", "n", "n", "a">>
    /\ chatList[2].full_name = <<"C", "a", "n">>

\* C17: every successful history answer (one with zero messages included)
\* posts a read receipt for the counterpart the fetch was issued for; a receipt
\* that succeeds issues a directory refresh, so the order is history, receipt,
\* refresh.
ReceiptAfterHistory ==
    [][/\ \A i \in 1..Len(loads) :
             HistoryDone(i, TRUE) => reads' = Append(reads, loads[i].other)
       /\ \A i \in 1..Len(reads) :
             ReadDone(i, TRUE) => refreshes' = Append(refreshes, 0)]_vars

\* C18: a read receipt that fails (network error, parse error or success false)
\* leaves the pane, the view, the room, the sockets and the cached rooms as
\* they are and issues no directory refresh; no receipt answer, also not the
\* second of two receipts for the same counterpart, raises an alert.
ReceiptFailureHarmless ==
    [][/\ \A i \in 1..Len(reads) :
             ReadDone(i, FALSE) =>
                 /\ reads' = RemoveAt(reads, i)
                 /\ UNCHANGED <<chatMessages, currentView, currentRoom,
                                currentOtherUserId, currentIsBot, chatSocket,
                                sockets, refreshes, chatRooms, chatList, loads>>
       /\ \A i \in 1..Len(reads), ok \in BOOLEAN :
             ReadDone(i, ok) => UNCHANGED <<alerts, chatMessages, session,
                                            transport>>]_vars

\* C18 witness: two receipts were posted for the same counterpart; one has
\* failed, the other is still in flight, and no refresh is in flight.
ReceiptFailureHarmlessWitness ==
    /\ last.op = "readDone"
    /\ last.result = "fail"
    /\ Len(reads) = 1
    /\ reads[1] = last.arg
    /\ refreshes = <<>>
    /\ alerts = {}

\* whether rooms is the mapping, entry by entry and in order, of the rooms of
\* the directory answer data
IsMappedFrom(rooms, data) ==
    /\ Len(rooms) = Len(data.chat_rooms)
    /\ \A k \in 1..Len(rooms) :
          /\ rooms[k].userId = data.chat_rooms[k].user_id
          /\ rooms[k].name = data.chat_rooms[k].full_name
          /\ rooms[k].avatar = data.chat_rooms[k].avatar
          /\ rooms[k].roomName = data.chat_rooms[k].room_name
          /\ rooms[k].unreadCount = data.chat_rooms[k].unread_count
          /\ rooms[k].isBot = data.chat_rooms[k].is_bot

\* C19, state part: the cached rooms are the initial empty collection or the
\* mapped rooms, in order, of one directory answer.
CacheOfOneResponse ==
    chatRooms = <<>> \/ \E data \in Responses : IsMappedFrom(chatRooms, data)

\* C19, step part: only a successful refresh changes the cached rooms; a
\* refresh that fails leaves them as they are.
CacheStep ==
    /\ \A i \in 1..Len(refreshes) : RefreshDone(i, FALSE) => chatRooms' = chatRooms
    /\ chatRooms' # chatRooms => \E i \in 1..Len(refreshes) : RefreshDone(i, TRUE)

\* C19: at every instant the cached rooms equal the mapped rooms, in response
\* order, of exactly one successful directory answer (or the initial empty
\* collection); a successful refresh replaces them wholesale and a failed
\* refresh leaves the cached rooms unchanged.
CacheReplacedWholesale == []CacheOfOneResponse /\ [][CacheStep]_vars

\* C19 witness: a refresh failed after a successful one had cached the answer
\* with two rooms; the two rooms are still cached while the list shows the
\* error.
CacheReplacedWholesaleWitness ==
    /\ last.op = "refreshDone"
    /\ last.result = "fail"
    /\ Len(chatRooms) = 2
    /\ unreadBadge = 3
    /\ chatList = <<>>
    /\ issued.refreshes >= 3

\* C20: a socket error or a closure by the peer only marks that socket closed:
\* no socket is created, chatSocket still refers to the same object, and the
\* view and the room stay as they are; a socket is created only by a step of
\* sendMessage or of a room open (row click, openChatWidget's timer).
NoAutoReconnect ==
    [][/\ \A s \in Slots :
             SocketDrop(s) =>
                 /\ sockets' = [sockets EXCEPT ![s].readyState = "CLOSED"]
                 /\ Alive(sockets') = Alive(sockets)
                 /\ UNCHANGED <<chatSocket, currentView, currentRoom>>
       /\ (\E k \in Slots : /\ sockets'[k].readyState = "CONNECTING"
                            /\ sockets'[k] # sockets[k])
          => \/ \E input \in Inputs : SendMessageClick(input)
             \/ \E i \in 1..Len(chatList) : HandleChatItemClick(i)
             \/ \E i \in 1..Len(openTimers) : OpenTimerFire(i)]_vars

\* C20 witness: the socket of the room shown was dropped after a send had
\* reconnected it; it is still the only socket and no new one exists.
NoAutoReconnectWitness ==
    /\ last.op = "socketDrop"
    /\ last.arg = chatSocket
    /\ sockets[chatSocket].readyState = "CLOSED"
    /\ sockets[chatSocket].room = currentRoom
    /\ Cardinality(Alive(sockets)) = 1
    /\ sends # <<>>
    /\ ~sends[1].direct


\* C25: whenever chatState.chatSocket holds a socket, that socket was made for
\* the current room and on the path of that room's kind (/ws/chat/bot/ exactly
\* when the room is a bot room), whether showChatDetail made it after a click or
\* after openChatWidget, or the reconnect of sendMessage made it.
TransportBoundToRoom ==
    chatSocket # 0 =>
        /\ sockets[chatSocket].room = currentRoom
        /\ sockets[chatSocket].bot = currentIsBot

\* the reconnect of sendMessage has just made the socket of a bot room
TransportBoundToRoomWitness ==
    /\ last.op = "send"
    /\ last.result = "reconnect"
    /\ currentIsBot
    /\ chatSocket # 0
    /\ sockets[chatSocket].bot
    /\ sockets[chatSocket].room = currentRoom


\* C26: every frame handed to WebSocket.send for a sendMessage call went out on
\* a socket made for the room that was current when sendMessage was called; in
\* particular the 500 ms retry does not send on the socket of a room opened
\* during the delay.
SentOnOwnRoom ==
    \A k \in 1..Len(transmitted) :
        transmitted[k].room = sends[transmitted[k].msg].room


\* the message rows of a pane, without the placeholder
MessageRows(msgs) == SelectSeq(msgs, LAMBDA e : ~IsPlaceholder(e))

\* C28, the state part: in the pane no history row stands after a row that
\* addMessageToChat appended.
HistoryRowsFirst ==
    \A i, j \in 1..Len(chatMessages) :
        (i < j /\ chatMessages[i].kind \in {"live", "optimistic"})
            => chatMessages[j].kind # "history"

\* C28, the step part: a surfaced frame and an accepted sendMessage put their
\* row last in the pane and leave the message rows that were there as they
\* were, in the same order.
AppendAtEndStep ==
    (\/ (last'.op = "frame" /\ last'.result = "surfaced")
     \/ (last'.op = "send" /\ last'.result \in {"sent", "reconnect"}))
    => /\ chatMessages' # <<>>
       /\ chatMessages'[Len(chatMessages')].kind =
            (IF last'.op = "frame" THEN "live" ELSE "optimistic")
       /\ MessageRows(chatMessages') =
            Append(MessageRows(chatMessages), chatMessages'[Len(chatMessages')])

\* C28: addMessageToChat, called for a live frame or for the optimistic copy of
\* a sent text, appends at the end of the pane and neither removes nor reorders
\* the message rows already there, so the pane is the history rows followed by
\* the later rows in arrival order.
AppendAtEnd == []HistoryRowsFirst /\ [][AppendAtEndStep]_vars

\* a pane with a history row, then a live row, then the optimistic row of the
\* send that has just run
AppendAtEndWitness ==
    /\ last.op = "send"
    /\ last.result \in {"sent", "reconnect"}
    /\ Len(chatMessages) >= 3
    /\ chatMessages[1].kind = "history"
    /\ chatMessages[Len(chatMessages) - 1].kind = "live"
    /\ chatMessages[Len(chatMessages)].kind = "optimistic"


\* C23: after history load, live appends and optimistic appends the rows of the
\* pane are in the order of their creation, and the optimistic row of a text
\* that was sent is replaced by the echo the socket delivers for it: the pane
\* never shows the optimistic row of a directly sent text together with a later
\* live row of the same sender and content.
EchoReplacesOptimistic ==
    \A i, j \in 1..Len(chatMessages) :
        ~ ( /\ i < j
            /\ chatMessages[i].kind = "optimistic"
            /\ chatMessages[i].ref \in 1..Len(sends)
            /\ sends[chatMessages[i].ref].direct
            /\ Transmissions(chatMessages[i].ref) # {}
            /\ chatMessages[j].kind = "live"
            /\ chatMessages[j].senderId = CurrentUserId
            /\ chatMessages[j].content = chatMessages[i].content )


\* C29: when several directory fetches are in flight, the cached rooms and the
\* unread badge end up as the answer of the fetch issued last: once the newest
\* fetch has been applied, the answer of the one older fetch still in flight
\* changes neither.
LatestRefreshWins ==
    [][ ( /\ last.op = "refreshDone"
          /\ last.result = "ok"
          /\ Len(refreshes) = 1
          /\ last.arg = 2
          /\ RefreshDone(1, TRUE) )
        => ( /\ chatRooms' = chatRooms
             /\ unreadBadge' = unreadBadge ) ]_vars


----------------------------------------------------------------------------
\* The callbacks that open or close the widget window, or that run between an
\* openChatWidget(userId) call and its deferred room open.
NextWindow ==
    \/ ToggleChatWindow
    \/ \E userId \in {0, 2} : OpenChatWidget(userId)
    \/ CloseChatWindow
    \/ ShowChatList
    \/ \E i \in 1..Len(refreshes), ok \in BOOLEAN : RefreshDone(i, ok)
    \/ \E i \in 1..Len(chatList) : HandleChatItemClick(i)
    \/ \E i \in 1..Len(openTimers) : OpenTimerFire(i)

SpecWindow == Init /\ [][NextWindow]_vars

\* The callbacks that read or write the per-row data of the list, or that decide
\* which rows are on screen and which pane a failure has left behind.
NextRows ==
    \/ ToggleChatWindow
    \/ \E i \in 1..Len(refreshes), ok \in BOOLEAN : RefreshDone(i, ok)
    \/ \E i \in 1..Len(chatList) : HandleChatItemClick(i)
    \/ \E i \in cleanups : CleanupFire(i)
    \/ ShowChatList
    \/ \E i \in 1..Len(loads), ok \in BOOLEAN : HistoryDone(i, ok)

SpecRows == Init /\ [][NextRows]_vars

DeferredOpenRespectsUser ==
    [][ \A i \in 1..Len(openTimers) :
          OpenTimerFire(i)
          => /\ ~isOpen => (sockets' = sockets /\ chatSocket' = chatSocket)
             /\ (last.op = "click" /\ last.result \in {"opened", "switched"})
                    => currentRoom' = currentRoom ]_vars


\* the failure a room open has left in the pane: the history fetch failed, or
\* the room name was refused
FailureLeft ==
    /\ chatMessages # <<>>
    /\ chatMessages[1].kind \in {"error", "invalid"}

\* C21: after a failure (here: of the history fetch, or a refused room name) the
\* widget is not stuck: back to the list, the selection of a listed room with a
\* well-formed name opens the detail view of that room with a socket that is
\* connecting and a new history fetch.
RecoversAfterFailure ==
    [][ \A i \in 1..Len(chatList) :
          (FailureLeft /\ Len(chatList[i].roomName) >= 3 /\ HandleChatItemClick(i))
          => /\ currentView' = "detail"
             /\ currentRoom' = chatList[i].roomName
             /\ chatSocket' # 0
             /\ sockets'[chatSocket'] =
                  [room |-> chatList[i].roomName, bot |-> chatList[i].isBot,
                   readyState |-> "CONNECTING"]
             /\ Len(loads') = Len(loads) + 1
             /\ loads'[Len(loads')].room = chatList[i].roomName ]_vars

\* C24: a click on any row shown in the list opens the detail view of the room
\* of that row, with a socket for it and, for a well-formed room name, a history
\* fetch; a second click on the same row more than a second after the first,
\* with no render of the list in between, does so too.
RowSelectionOpens ==
    [][ \A i \in 1..Len(chatList) :
          HandleChatItemClick(i)
          => /\ currentView' = "detail"
             /\ currentRoom' = chatList[i].roomName
             /\ chatSocket' # 0
             /\ sockets'[chatSocket'].room = chatList[i].roomName
             /\ Len(chatList[i].roomName) >= 3
                  => loads' = Append(loads,
                         [room |-> chatList[i].roomName,
                          other |-> OtherUserId(chatList[i].roomName,
                                                CurrentUserId)]) ]_vars


\* C27: the texts submitted in one room are handed to WebSocket.send in the
\* order of their sendMessage calls: a text sent directly on the open socket
\* never goes out before an earlier text that waits for its 500 ms retry.
SubmissionOrderKept ==
    \A k1, k2 \in 1..Len(transmitted) :
        ( /\ k1 < k2
          /\ sends[transmitted[k1].msg].room = sends[transmitted[k2].msg].room )
        => transmitted[k1].msg <= transmitted[k2].msg


----------------------------------------------------------------------------
(* Notification dropdown: src/static/js/notifications.js *)

MaxNotifications == 3   \* entries of the notifications array
MaxRequests == 2        \* mark-read POSTs in flight at one time
MaxAttempts == 3        \* the attempts log stops counting here

\* ids of notifications; 0 models a frame without id, 9 an id of no entry
NotificationIds == {1, 2}

\* answers of GET listUrl
NotifyResponses ==
    { [notifications |-> << [id |-> 1, is_read |-> FALSE],
                            [id |-> 2, is_read |-> TRUE] >>,
       unread_count |-> 1],
      [notifications |-> <<>>, unread_count |-> 0] }

\* notifications.filter((item) => !item.is_read).length
GetUnreadCount(ns) == Cardinality({k \in 1..Len(ns) : ~ns[k].is_read})

\* notifications.find((item) => item.id === notificationId): its place, 0 when
\* there is none
FindNotification(ns, id) ==
    LET hits == {k \in 1..Len(ns) : ns[k].id = id}
    IN  IF hits = {} THEN 0 ELSE CHOOSE k \in hits : \A j \in hits : k <= j

NLast(op, arg, result) == [op |-> op, arg |-> arg, result |-> result]

\* requests whose target object is no longer in the array once it is replaced
Detached(reqs) == [i \in 1..Len(reqs) |-> [reqs[i] EXCEPT !.pos = 0]]

\* requests after notifications.unshift: every target moves one place down
Shifted(reqs) ==
    [i \in 1..Len(reqs) |->
        [reqs[i] EXCEPT !.pos = IF @ = 0 THEN 0 ELSE @ + 1]]

socketVars == <<notifySockets, reconnectTimers, attempts>>

\* the fetch of fetchNotifications settles: ok is a 2xx answer with a JSON body
FetchNotificationsDone(ok) ==
    /\ listFetch
    /\ listFetch' = FALSE
    /\ IF ok
       THEN \E data \in NotifyResponses :
              /\ notifications' = data.notifications
              /\ badge' = IF data.unread_count # 0 THEN data.unread_count
                          ELSE GetUnreadCount(data.notifications)
              /\ markReads' = Detached(markReads)
       ELSE UNCHANGED <<notifications, badge, markReads>>
    /\ nlast' = NLast("fetchDone", 0, IF ok THEN "ok" ELSE "fail")
    /\ UNCHANGED <<socketVars, markAlls>>
    /\ UNCHANGED outsideNotify

\* markNotificationRead that posts whatever the state of the entry is
MarkNotificationReadAlways(id) ==
    LET k == FindNotification(notifications, id)
    IN  /\ Len(markReads) < MaxRequests
        /\ markReads' = Append(markReads, [id |-> id, pos |-> k])
        /\ nlast' = NLast("markRead", id, "posted")
        /\ UNCHANGED <<notifications, socketVars, listFetch, markAlls, badge>>
        /\ UNCHANGED outsideNotify

\* markNotificationRead(notificationId) up to its await (handleListClick calls
\* it with the id parsed from the clicked row)
MarkNotificationRead(id) ==
    LET k == FindNotification(notifications, id)
    IN  /\ IF k = 0 \/ notifications[k].is_read
           THEN /\ nlast' = NLast("markRead", id, "skipped")
                /\ UNCHANGED markReads
           ELSE /\ Len(markReads) < MaxRequests
                /\ markReads' = Append(markReads, [id |-> id, pos |-> k])
                /\ nlast' = NLast("markRead", id, "posted")
        /\ UNCHANGED <<notifications, socketVars, listFetch, markAlls, badge>>
        /\ UNCHANGED outsideNotify

\* the POST of markNotificationRead settles: target.is_read = true on a 2xx
\* answer, the catch block on anything else
MarkReadDone(i, ok) ==
    /\ i \in 1..Len(markReads)
    /\ markReads' = RemoveAt(markReads, i)
    /\ IF ok
       THEN /\ notifications' =
                 IF markReads[i].pos = 0 THEN notifications
                 ELSE [notifications EXCEPT ![markReads[i].pos].is_read = TRUE]
            /\ badge' = GetUnreadCount(notifications')
       ELSE UNCHANGED <<notifications, badge>>
    /\ nlast' = NLast("markReadDone", markReads[i].id, IF ok THEN "ok" ELSE "fail")
    /\ UNCHANGED <<socketVars, listFetch, markAlls>>
    /\ UNCHANGED outsideNotify

\* click on #notificationsMarkAll (updateBadge disables the button at count 0)
MarkAllNotificationsRead ==
    /\ badge # 0
    /\ markAlls < MaxRequests
    /\ markAlls' = markAlls + 1
    /\ nlast' = NLast("markAll", 0, "posted")
    /\ UNCHANGED <<notifications, socketVars, listFetch, markReads, badge>>
    /\ UNCHANGED outsideNotify

\* the POST of markAllNotificationsRead settles
MarkAllDone(ok) ==
    /\ markAlls > 0
    /\ markAlls' = markAlls - 1
    /\ IF ok
       THEN /\ notifications' =
                 [k \in 1..Len(notifications) |->
                     [notifications[k] EXCEPT !.is_read = TRUE]]
            /\ badge' = 0
            /\ markReads' = Detached(markReads)
       ELSE UNCHANGED <<notifications, badge, markReads>>
    /\ nlast' = NLast("markAllDone", 0, IF ok THEN "ok" ELSE "fail")
    /\ UNCHANGED <<socketVars, listFetch>>
    /\ UNCHANGED outsideNotify

\* the connection of notification socket k is established
NotifySocketOpen(k) ==
    /\ k \in 1..Len(notifySockets)
    /\ notifySockets[k] = "CONNECTING"
    /\ notifySockets' = [notifySockets EXCEPT ![k] = "OPEN"]
    /\ nlast' = NLast("socketOpen", k, "")
    /\ UNCHANGED <<notifications, reconnectTimers, attempts, listFetch, markReads,
                   markAlls, badge>>
    /\ UNCHANGED outsideNotify

\* a socket whose onerror arms a reconnect timer as well as its onclose
NotifySocketCloseAndError(k) ==
    /\ k \in 1..Len(notifySockets)
    /\ notifySockets' = RemoveAt(notifySockets, k)
    /\ reconnectTimers' = reconnectTimers + 2
    /\ nlast' = NLast("socketClose", k, "")
    /\ UNCHANGED <<notifications, attempts, listFetch, markReads, markAlls, badge>>
    /\ UNCHANGED outsideNotify

\* websocket.onclose of socket k: the connection failed or was closed
NotifySocketClose(k) ==
    /\ k \in 1..Len(notifySockets)
    /\ notifySockets' = RemoveAt(notifySockets, k)
    /\ reconnectTimers' = reconnectTimers + 1
    /\ nlast' = NLast("socketClose", k, "")
    /\ UNCHANGED <<notifications, attempts, listFetch, markReads, markAlls, badge>>
    /\ UNCHANGED outsideNotify

\* the 5000 ms timer of onclose fires: connectWebSocket
ReconnectFire ==
    /\ reconnectTimers > 0
    /\ reconnectTimers' = reconnectTimers - 1
    /\ notifySockets' = Append(notifySockets, "CONNECTING")
    /\ attempts' = IF attempts < MaxAttempts THEN attempts + 1 ELSE attempts
    /\ nlast' = NLast("reconnect", 0, "")
    /\ UNCHANGED <<notifications, listFetch, markReads, markAlls, badge>>
    /\ UNCHANGED outsideNotify

\* websocket.onmessage of socket k with the frame {id, is_read}; id 0 is a frame
\* without id (or one that is not JSON), is_read FALSE also an absent field
NotifyOnMessage(k, id, is_read) ==
    /\ k \in 1..Len(notifySockets)
    /\ notifySockets[k] = "OPEN"
    /\ IF id = 0
       THEN /\ nlast' = NLast("frame", id, "ignored")
            /\ UNCHANGED <<notifications, badge, markReads>>
       ELSE /\ Len(notifications) < MaxNotifications
            /\ notifications' = << [id |-> id, is_read |-> is_read] >> \o notifications
            /\ badge' = GetUnreadCount(notifications')
            /\ markReads' = Shifted(markReads)
            /\ nlast' = NLast("frame", id, "added")
    /\ UNCHANGED <<socketVars, listFetch, markAlls>>
    /\ UNCHANGED outsideNotify

\* The callbacks of the notification socket and those that fill the array.
NextChannel ==
    \/ \E ok \in BOOLEAN : FetchNotificationsDone(ok)
    \/ \E k \in 1..Len(notifySockets) : NotifySocketOpen(k)
    \/ \E k \in 1..Len(notifySockets) : NotifySocketClose(k)
    \/ ReconnectFire
    \/ \E k \in 1..Len(notifySockets), id \in NotificationIds \cup {0},
          is_read \in BOOLEAN : NotifyOnMessage(k, id, is_read)

\* a timer set with setTimeout fires
SpecChannel == Init /\ [][NextChannel]_vars /\ WF_vars(ReconnectFire)

\* The callbacks that read or write the notifications array.
NextNotify ==
    \/ \E ok \in BOOLEAN : FetchNotificationsDone(ok)
    \/ \E id \in NotificationIds \cup {9} : MarkNotificationRead(id)
    \/ \E i \in 1..Len(markReads), ok \in BOOLEAN : MarkReadDone(i, ok)
    \/ MarkAllNotificationsRead
    \/ \E ok \in BOOLEAN : MarkAllDone(ok)
    \/ \E k \in 1..Len(notifySockets) : NotifySocketOpen(k)
    \/ \E k \in 1..Len(notifySockets), id \in NotificationIds \cup {0},
          is_read \in BOOLEAN : NotifyOnMessage(k, id, is_read)

SpecNotify == Init /\ [][NextNotify]_vars


\* C31, the state part: at most one notification socket is connecting or open;
\* the socket and the pending reconnect timers together are always exactly one;
\* and a pending timer can always fire, whatever the number of attempts so far.
OneChannelState ==
    /\ Len(notifySockets) <= 1
    /\ Len(notifySockets) + reconnectTimers = 1
    /\ reconnectTimers > 0 => ENABLED ReconnectFire

\* C31, the step part: a closure arms one timer, and a timer that fires makes
\* one connection attempt.
OneChannelStep ==
    /\ Len(notifySockets') < Len(notifySockets)
         => /\ Len(notifySockets') = Len(notifySockets) - 1
            /\ reconnectTimers' = reconnectTimers + 1
    /\ reconnectTimers' < reconnectTimers
         => /\ reconnectTimers' = reconnectTimers - 1
            /\ notifySockets' = Append(notifySockets, "CONNECTING")

\* C31: at most one notification WebSocket is connecting or open at any time,
\* and every closure of it is followed, when its 5 s timer fires, by exactly one
\* new connection attempt, however many attempts there have been.
OneChannel ==
    /\ []OneChannelState
    /\ [][OneChannelStep]_vars
    /\ (reconnectTimers > 0) ~> (Len(notifySockets) = 1 /\ reconnectTimers = 0)

\* the socket is connecting again after at least two closures
OneChannelWitness ==
    /\ nlast.op = "reconnect"
    /\ attempts = MaxAttempts
    /\ notifySockets = << "CONNECTING" >>
    /\ reconnectTimers = 0


\* C32: markNotificationRead(id) posts nothing when no entry has the id or the
\* entry is already read, and changes no entry before the answer; a failed POST
\* leaves the array and the unread count as they were, a successful one marks
\* the target read; after a successful markAllNotificationsRead the unread
\* count is 0.
MarkReadGuarded ==
    [][ /\ \A id \in NotificationIds \cup {9} :
             MarkNotificationRead(id)
             => /\ UNCHANGED <<notifications, badge>>
                /\ LET k == FindNotification(notifications, id)
                   IN  IF k = 0 \/ notifications[k].is_read
                       THEN markReads' = markReads
                       ELSE markReads' = Append(markReads, [id |-> id, pos |-> k])
        /\ \A i \in 1..Len(markReads) :
             /\ MarkReadDone(i, FALSE) => UNCHANGED <<notifications, badge>>
             /\ MarkReadDone(i, TRUE)
                => /\ Len(notifications') = Len(notifications)
                   /\ \A k \in 1..Len(notifications) :
                        /\ notifications'[k].id = notifications[k].id
                        /\ notifications'[k].is_read =
                             (notifications[k].is_read \/ k = markReads[i].pos)
                   /\ badge' = GetUnreadCount(notifications')
        /\ MarkAllDone(FALSE) => UNCHANGED <<notifications, badge>>
        /\ MarkAllDone(TRUE)
             => /\ GetUnreadCount(notifications') = 0
                /\ badge' = 0 ]_vars

\* a mark-read POST has just failed and its notification is still unread
MarkReadGuardedWitness ==
    /\ nlast.op = "markReadDone"
    /\ nlast.result = "fail"
    /\ FindNotification(notifications, nlast.arg) # 0
    /\ ~notifications[FindNotification(notifications, nlast.arg)].is_read
    /\ badge > 0


----------------------------------------------------------------------------
(* Cart page: handlers *)

\* updateQuantityInput -> submitHiddenForm('/update-cart/<id>/', {quantity}):
\* the form is posted and the page comes back rendered with the new quantity
SubmitQuantity(itemId, val) ==
    /\ Len(submitted) < MaxSubmits
    /\ submitted' = Append(submitted, [item |-> itemId, quantity |-> val])
    /\ PageLoad([quantity EXCEPT ![itemId] = val], appliedDiscounts)

\* click on .quantity-decrease / .quantity-increase of an item (data-change is
\* -1 or 1): CartManager.updateQuantity
UpdateQuantity(itemId, change) ==
    LET newVal == CartParseInt(quantityInput[itemId]) + change
    IN  /\ IF newVal >= MIN_QUANTITY /\ newVal <= MAX_QUANTITY
           THEN /\ SubmitQuantity(itemId, newVal)
                /\ clast' = CLast("updateQuantity", itemId, "submitted")
           ELSE /\ clast' = CLast("updateQuantity", itemId, "refused")
                /\ UNCHANGED <<quantity, quantityInput, checked, appliedDiscounts,
                               cache, voucherLoads, voucherList, shown, submitted>>
        /\ UNCHANGED outsideCart

\* the user commits a new text in the .quantity-input of an item: the change
\* listener of CartEvents.setupChangeHandlers
QuantityInputChange(itemId, text) ==
    LET value == CartParseInt(text)
    IN  /\ text # quantityInput[itemId]
        /\ IF ValidateQuantity(value)
           THEN /\ SubmitQuantity(itemId, value)
                /\ clast' = CLast("quantityInput", itemId, "submitted")
           ELSE /\ quantityInput' = [quantityInput EXCEPT ![itemId] = text]
                /\ clast' = CLast("quantityInput", itemId, "refused")
                /\ UNCHANGED <<quantity, checked, appliedDiscounts, cache,
                               voucherLoads, voucherList, shown, submitted>>
        /\ UNCHANGED outsideCart

\* change of the .item-checkbox of an item: window.updateTotal
ToggleItem(itemId) ==
    /\ checked' = [checked EXCEPT ![itemId] = ~@]
    /\ shown' = UpdateTotal(checked', quantity, appliedDiscounts)
    /\ clast' = CLast("toggleItem", itemId, "")
    /\ UNCHANGED <<quantity, quantityInput, appliedDiscounts, cache, voucherLoads,
                   voucherList, submitted>>
    /\ UNCHANGED outsideCart

\* click on the .store-checkbox of a store: window.toggleStoreItems
ToggleStoreItems(storeId, value) ==
    /\ checked' = [i \in Items |-> IF StoreOf[i] = storeId THEN value ELSE checked[i]]
    /\ shown' = UpdateTotal(checked', quantity, appliedDiscounts)
    /\ clast' = CLast("toggleStore", storeId, "")
    /\ UNCHANGED <<quantity, quantityInput, appliedDiscounts, cache, voucherLoads,
                   voucherList, submitted>>
    /\ UNCHANGED outsideCart

\* click on .show-vouchers-btn of a store: showShopVouchers up to the point
\* where loadDiscountCodes either returns the cached codes (any array, empty
\* or not, is truthy) or waits for its fetch
ShowShopVouchers(storeId) ==
    /\ IF cache[storeId].loaded
       THEN /\ voucherList' = [store |-> storeId, codes |-> cache[storeId].codes,
                               loading |-> FALSE]
            /\ clast' = CLast("showVouchers", storeId, "cached")
            /\ UNCHANGED voucherLoads
       ELSE /\ Len(voucherLoads) < MaxVoucherLoads
            /\ voucherLoads' = Append(voucherLoads, storeId)
            /\ voucherList' = [store |-> storeId, codes |-> <<>>, loading |-> TRUE]
            /\ clast' = CLast("showVouchers", storeId, "fetch")
    /\ UNCHANGED cache
    /\ UNCHANGED <<quantity, quantityInput, checked, appliedDiscounts, shown,
                   submitted>>
    /\ UNCHANGED outsideCart

\* the fetch of loadDiscountCodes settles and showShopVouchers lists what it
\* returned
VouchersDone(i, answer) ==
    LET storeId == voucherLoads[i]
        returned == IF answer.kind = "success" THEN answer.discount_codes ELSE <<>>
    IN  /\ voucherLoads' = RemoveAt(voucherLoads, i)
        /\ cache' = IF answer.kind = "success"
                    THEN [cache EXCEPT ![storeId] =
                            [loaded |-> TRUE, codes |-> answer.discount_codes]]
                    ELSE cache
        /\ voucherList' = [store |-> storeId, codes |-> returned, loading |-> FALSE]
        /\ clast' = CLast("vouchersDone", storeId, answer.kind)
        /\ UNCHANGED <<quantity, quantityInput, checked, appliedDiscounts, shown,
                       submitted>>
        /\ UNCHANGED outsideCart

\* click on the .apply-discount-btn of a listed code: applyDiscountCode
ApplyDiscountCode(discountIndex) ==
    /\ discountIndex \in 1..Len(voucherList.codes)
    /\ appliedDiscounts' = [appliedDiscounts EXCEPT ![voucherList.store] =
                                voucherList.codes[discountIndex]]
    /\ shown' = UpdateTotal(checked, quantity, appliedDiscounts')
    /\ clast' = CLast("applyDiscount", voucherList.store, "")
    /\ UNCHANGED <<quantity, quantityInput, checked, cache, voucherLoads,
                   voucherList, submitted>>
    /\ UNCHANGED outsideCart

\* The callbacks that change a quantity.
NextQuantity ==
    \/ \E itemId \in Items, change \in {-1, 1} : UpdateQuantity(itemId, change)
    \/ \E itemId \in Items, text \in TypedTexts : QuantityInputChange(itemId, text)

SpecQuantity == Init /\ [][NextQuantity]_vars

\* The callbacks that change what is selected, which discount a store has, or
\* which codes are known.
NextCart ==
    \/ \E itemId \in Items : ToggleItem(itemId)
    \/ \E storeId \in Stores, value \in BOOLEAN : ToggleStoreItems(storeId, value)
    \/ \E storeId \in Stores : ShowShopVouchers(storeId)
    \/ \E i \in 1..Len(voucherLoads) :
         \E answer \in VoucherAnswers(voucherLoads[i]) : VouchersDone(i, answer)
    \/ \E discountIndex \in 1..Len(voucherList.codes) :
         ApplyDiscountCode(discountIndex)

SpecCart == Init /\ [][NextCart]_vars


\* C33, the state part: every quantity posted to /update-cart/<id>/ lies in
\* [MIN_QUANTITY, MAX_QUANTITY].
SubmittedInRange ==
    \A k \in 1..Len(submitted) :
        /\ submitted[k].quantity >= MIN_QUANTITY
        /\ submitted[k].quantity <= MAX_QUANTITY

\* C33, the step part: a button click or an edit of the input that posts nothing
\* leaves the value of every quantity input as it was.
RefusedKeepsInput ==
    (clast'.op \in {"updateQuantity", "quantityInput"} /\ submitted' = submitted)
        => quantityInput' = quantityInput

\* C33: every cart quantity posted to the backend, by the increase / decrease
\* buttons or by editing the quantity input, lies in [1, 99]; a change that
\* would leave this range posts nothing and leaves the input value unchanged.
QuantityInRange == [][SubmittedInRange' /\ RefusedKeepsInput]_vars


\* C34: whatever items are ticked and whatever discount each store has
\* (percentage with or without max_discount, or fixed), the amount to pay that
\* the footer shows (selected total minus total discount) is never negative,
\* and the discount of a store never exceeds the selected total of that store.
PayableNonNegative ==
    /\ shown.totalAmount >= 0
    /\ \A s \in Stores :
         LET storeTotal == StoreTotals(checked, quantity)[s]
         IN  storeTotal > 0
             => CalculateStoreDiscount(appliedDiscounts[s], storeTotal) <= storeTotal


\* C35, the state part: the codes cached for a store are the discount_codes of
\* a {success: true} answer for that store.
CacheHoldsSuccess ==
    \A s \in Stores :
        cache[s].loaded
        => \E answer \in VoucherAnswers(s) :
             /\ answer.kind = "success"
             /\ cache[s].codes = answer.discount_codes

\* C35, the step part: a load for a cached store lists the cached codes and
\* starts no fetch; a load for a store not cached starts one; a successful
\* answer is cached and listed; a failed one lists nothing and leaves the cache
\* as it was, so that the store is still not cached.
CacheStepsRight ==
    /\ \A s \in Stores :
         ShowShopVouchers(s)
         => /\ cache' = cache
            /\ IF cache[s].loaded
               THEN /\ voucherLoads' = voucherLoads
                    /\ voucherList'.codes = cache[s].codes
                    /\ ~voucherList'.loading
               ELSE voucherLoads' = Append(voucherLoads, s)
    /\ \A i \in 1..Len(voucherLoads) :
         \A answer \in VoucherAnswers(voucherLoads[i]) :
           VouchersDone(i, answer)
           => IF answer.kind = "success"
              THEN /\ cache'[voucherLoads[i]] =
                        [loaded |-> TRUE, codes |-> answer.discount_codes]
                   /\ voucherList'.codes = answer.discount_codes
              ELSE /\ cache' = cache
                   /\ voucherList'.codes = <<>>

\* C35, the lasting part: the codes cached for a store stay the codes every
\* later load for it returns.
CachedCodesKept ==
    \A s \in Stores : cache[s].loaded => cache'[s] = cache[s]

\* C35: loadDiscountCodes(storeId) caches successful answers only: once a load
\* for a store has succeeded, every later load for it returns the same codes
\* without a request, while a failed load returns an empty list and caches
\* nothing, so that the next load fetches again.
CachesOnlySuccess ==
    [][CacheHoldsSuccess' /\ CacheStepsRight /\ CachedCodesKept]_vars

====
